---------------------------- MODULE Spec2Model ----------------------------
(***************************************************************************)
(* Model of the record-processing core of the RIS scraper                  *)
(* (src/試題1/data_processing.py): text cleaning, ROC date parsing,        *)
(* address parsing, the per-record validation pipeline and the batch loop. *)
(*                                                                         *)
(* A Python str is a sequence of Unicode code points (naturals).  An       *)
(* Optional value is None == <<>> or Some(x) == <<x>>.  A raw record       *)
(* (a dict) is a function from the keys it holds to strings.               *)
(***************************************************************************)
EXTENDS Integers, Sequences, FiniteSets, TLC

VARIABLES
    text, once, twice, tpc,             \* clean_text applied once and twice
    wdate, rocstr, parsed, dpc,         \* to_roc_date_string, then parse_roc_date
    raw, ret, again, rpc,               \* one call of process_record (and a re-run)
    records, idx, processed, quarantined, bpc,   \* process_records loop
    arg, rv, today, cpc,                \* one call of a function: its argument and result
    scraped, available,                 \* one run of main: the scraper's results, the import
    db_up, db_fault,                    \* what the database does in this run
    house_number_records,               \* the rows of the table
    processed_records, quarantined_records,
    db_raw, db_processed,               \* the rows each save method committed in this run
    db_saved_count, mpc

textVars  == <<text, once, twice, tpc>>
dateVars  == <<wdate, rocstr, parsed, dpc>>
recVars   == <<raw, ret, again, rpc>>
batchVars == <<records, idx, processed, quarantined, bpc>>
callVars  == <<arg, rv, today, cpc>>
mainVars  == <<scraped, available, db_up, db_fault, house_number_records,
               processed_records, quarantined_records,
               db_raw, db_processed, db_saved_count, mpc>>
vars == <<textVars, dateVars, recVars, batchVars, callVars, mainVars>>

----------------------------------------------------------------------------
(* Bounds of the model *)

MaxLen == 3          \* longest string given to clean_text in SpecText
YearSlack == 1       \* years outside the ROC window [100, 120] that SpecDate also draws
MaxBatch == 3        \* longest batch given to process_records
ShortAddrLen == 5    \* longest of the short addresses given to parse_address and validate_address

----------------------------------------------------------------------------
(* Optional values and sequences *)

None == <<>>
Some(x) == <<x>>

Min(S) == CHOOSE x \in S : \A y \in S : x <= y
Max(S) == CHOOSE x \in S : \A y \in S : x >= y

Strings(A, n) == UNION {[1..k -> A] : k \in 0..n}

RECURSIVE Flatten(_)
Flatten(ss) == IF ss = <<>> THEN <<>> ELSE Head(ss) \o Flatten(Tail(ss))

----------------------------------------------------------------------------
(* Text cleaning: fullwidth_to_halfwidth, clean_whitespace, clean_text *)

\* Code points matched by the regex class [\s　] on a str pattern.
WHITESPACE == {9, 10, 11, 12, 13, 28, 29, 30, 31, 32, 133, 160, 5760,
               8232, 8233, 8239, 8287, 12288} \cup (8192..8202)

\* unicodedata.normalize('NFKC', .) follows the Unicode Character Database of
\* the interpreter (unicodedata.unidata_version = 14.0.0).  The tables below are
\* that database: NFKD_TABLE holds <<c, d>> for every code point c whose full
\* compatibility decomposition d is not <<c>> (the Hangul syllables, which
\* decompose by arithmetic, are left out), in increasing order of c.
NFKD_TABLE == <<
    <<160, <<32>>>>, <<168, <<32, 776>>>>, <<170, <<97>>>>, <<175, <<32, 772>>>>,
    <<178, <<50>>>>, <<179, <<51>>>>, <<180, <<32, 769>>>>, <<181, <<956>>>>,
    <<184, <<32, 807>>>>, <<185, <<49>>>>, <<186, <<111>>>>, <<188, <<49, 8260, 52>>>>,
    <<189, <<49, 8260, 50>>>>, <<190, <<51, 8260, 52>>>>, <<192, <<65, 768>>>>,
    <<193, <<65, 769>>>>, <<194, <<65, 770>>>>, <<195, <<65, 771>>>>, <<196, <<65, 776>>>>,
    <<197, <<65, 778>>>>, <<199, <<67, 807>>>>, <<200, <<69, 768>>>>, <<201, <<69, 769>>>>,
    <<202, <<69, 770>>>>, <<203, <<69, 776>>>>, <<204, <<73, 768>>>>, <<205, <<73, 769>>>>,
    <<206, <<73, 770>>>>, <<207, <<73, 776>>>>, <<209, <<78, 771>>>>, <<210, <<79, 768>>>>,
    <<211, <<79, 769>>>>, <<212, <<79, 770>>>>, <<213, <<79, 771>>>>, <<214, <<79, 776>>>>,
    <<217, <<85, 768>>>>, <<218, <<85, 769>>>>, <<219, <<85, 770>>>>, <<220, <<85, 776>>>>,
    <<221, <<89, 769>>>>, <<224, <<97, 768>>>>, <<225, <<97, 769>>>>, <<226, <<97, 770>>>>,
    <<227, <<97, 771>>>>, <<228, <<97, 776>>>>, <<229, <<97, 778>>>>, <<231, <<99, 807>>>>,
    <<232, <<101, 768>>>>, <<233, <<101, 769>>>>, <<234, <<101, 770>>>>, <<235, <<101, 776>>>>,
    <<236, <<105, 768>>>>, <<237, <<105, 769>>>>, <<238, <<105, 770>>>>, <<239, <<105, 776>>>>,
    <<241, <<110, 771>>>>, <<242, <<111, 768>>>>, <<243, <<111, 769>>>>, <<244, <<111, 770>>>>,
    <<245, <<111, 771>>>>, <<246, <<111, 776>>>>, <<249, <<117, 768>>>>, <<250, <<117, 769>>>>,
    <<251, <<117, 770>>>>, <<252, <<117, 776>>>>, <<253, <<121, 769>>>>, <<255, <<121, 776>>>>,
    <<256, <<65, 772>>>>, <<257, <<97, 772>>>>, <<258, <<65, 774>>>>, <<259, <<97, 774>>>>,
    <<260, <<65, 808>>>>, <<261, <<97, 808>>>>, <<262, <<67, 769>>>>, <<263, <<99, 769>>>>,
    <<264, <<67, 770>>>>, <<265, <<99, 770>>>>, <<266, <<67, 775>>>>, <<267, <<99, 775>>>>,
    <<268, <<67, 780>>>>, <<269, <<99, 780>>>>, <<270, <<68, 780>>>>, <<271, <<100, 780>>>>,
    <<274, <<69, 772>>>>, <<275, <<101, 772>>>>, <<276, <<69, 774>>>>, <<277, <<101, 774>>>>,
    <<278, <<69, 775>>>>, <<279, <<101, 775>>>>, <<280, <<69, 808>>>>, <<281, <<101, 808>>>>,
    <<282, <<69, 780>>>>, <<283, <<101, 780>>>>, <<284, <<71, 770>>>>, <<285, <<103, 770>>>>,
    <<286, <<71, 774>>>>, <<287, <<103, 774>>>>, <<288, <<71, 775>>>>, <<289, <<103, 775>>>>,
    <<290, <<71, 807>>>>, <<291, <<103, 807>>>>, <<292, <<72, 770>>>>, <<293, <<104, 770>>>>,
    <<296, <<73, 771>>>>, <<297, <<105, 771>>>>, <<298, <<73, 772>>>>, <<299, <<105, 772>>>>,
    <<300, <<73, 774>>>>, <<301, <<105, 774>>>>, <<302, <<73, 808>>>>, <<303, <<105, 808>>>>,
    <<304, <<73, 775>>>>, <<306, <<73, 74>>>>, <<307, <<105, 106>>>>, <<308, <<74, 770>>>>,
    <<309, <<106, 770>>>>, <<310, <<75, 807>>>>, <<311, <<107, 807>>>>, <<313, <<76, 769>>>>,
    <<314, <<108, 769>>>>, <<315, <<76, 807>>>>, <<316, <<108, 807>>>>, <<317, <<76, 780>>>>,
    <<318, <<108, 780>>>>, <<319, <<76, 183>>>>, <<320, <<108, 183>>>>, <<323, <<78, 769>>>>,
    <<324, <<110, 769>>>>, <<325, <<78, 807>>>>, <<326, <<110, 807>>>>, <<327, <<78, 780>>>>,
    <<328, <<110, 780>>>>, <<329, <<700, 110>>>>, <<332, <<79, 772>>>>, <<333, <<111, 772>>>>,
    <<334, <<79, 774>>>>, <<335, <<111, 774>>>>, <<336, <<79, 779>>>>, <<337, <<111, 779>>>>,
    <<340, <<82, 769>>>>, <<341, <<114, 769>>>>, <<342, <<82, 807>>>>, <<343, <<114, 807>>>>,
    <<344, <<82, 780>>>>, <<345, <<114, 780>>>>, <<346, <<83, 769>>>>, <<347, <<115, 769>>>>,
    <<348, <<83, 770>>>>, <<349, <<115, 770>>>>, <<350, <<83, 807>>>>, <<351, <<115, 807>>>>,
    <<352, <<83, 780>>>>, <<353, <<115, 780>>>>, <<354, <<84, 807>>>>, <<355, <<116, 807>>>>,
    <<356, <<84, 780>>>>, <<357, <<116, 780>>>>, <<360, <<85, 771>>>>, <<361, <<117, 771>>>>,
    <<362, <<85, 772>>>>, <<363, <<117, 772>>>>, <<364, <<85, 774>>>>, <<365, <<117, 774>>>>,
    <<366, <<85, 778>>>>, <<367, <<117, 778>>>>, <<368, <<85, 779>>>>, <<369, <<117, 779>>>>,
    <<370, <<85, 808>>>>, <<371, <<117, 808>>>>, <<372, <<87, 770>>>>, <<373, <<119, 770>>>>,
    <<374, <<89, 770>>>>, <<375, <<121, 770>>>>, <<376, <<89, 776>>>>, <<377, <<90, 769>>>>,
    <<378, <<122, 769>>>>, <<379, <<90, 775>>>>, <<380, <<122, 775>>>>, <<381, <<90, 780>>>>,
    <<382, <<122, 780>>>>, <<383, <<115>>>>, <<416, <<79, 795>>>>, <<417, <<111, 795>>>>,
    <<431, <<85, 795>>>>, <<432, <<117, 795>>>>, <<452, <<68, 90, 780>>>>,
    <<453, <<68, 122, 780>>>>, <<454, <<100, 122, 780>>>>, <<455, <<76, 74>>>>,
    <<456, <<76, 106>>>>, <<457, <<108, 106>>>>, <<458, <<78, 74>>>>, <<459, <<78, 106>>>>,
    <<460, <<110, 106>>>>, <<461, <<65, 780>>>>, <<462, <<97, 780>>>>, <<463, <<73, 780>>>>,
    <<464, <<105, 780>>>>, <<465, <<79, 780>>>>, <<466, <<111, 780>>>>, <<467, <<85, 780>>>>,
    <<468, <<117, 780>>>>, <<469, <<85, 776, 772>>>>, <<470, <<117, 776, 772>>>>,
    <<471, <<85, 776, 769>>>>, <<472, <<117, 776, 769>>>>, <<473, <<85, 776, 780>>>>,
    <<474, <<117, 776, 780>>>>, <<475, <<85, 776, 768>>>>, <<476, <<117, 776, 768>>>>,
    <<478, <<65, 776, 772>>>>, <<479, <<97, 776, 772>>>>, <<480, <<65, 775, 772>>>>,
    <<481, <<97, 775, 772>>>>, <<482, <<198, 772>>>>, <<483, <<230, 772>>>>,
    <<486, <<71, 780>>>>, <<487, <<103, 780>>>>, <<488, <<75, 780>>>>, <<489, <<107, 780>>>>,
    <<490, <<79, 808>>>>, <<491, <<111, 808>>>>, <<492, <<79, 808, 772>>>>,
    <<493, <<111, 808, 772>>>>, <<494, <<439, 780>>>>, <<495, <<658, 780>>>>,
    <<496, <<106, 780>>>>, <<497, <<68, 90>>>>, <<498, <<68, 122>>>>, <<499, <<100, 122>>>>,
    <<500, <<71, 769>>>>, <<501, <<103, 769>>>>, <<504, <<78, 768>>>>, <<505, <<110, 768>>>>,
    <<506, <<65, 778, 769>>>>, <<507, <<97, 778, 769>>>>, <<508, <<198, 769>>>>,
    <<509, <<230, 769>>>>, <<510, <<216, 769>>>>, <<511, <<248, 769>>>>, <<512, <<65, 783>>>>,
    <<513, <<97, 783>>>>, <<514, <<65, 785>>>>, <<515, <<97, 785>>>>, <<516, <<69, 783>>>>,
    <<517, <<101, 783>>>>, <<518, <<69, 785>>>>, <<519, <<101, 785>>>>, <<520, <<73, 783>>>>,
    <<521, <<105, 783>>>>, <<522, <<73, 785>>>>, <<523, <<105, 785>>>>, <<524, <<79, 783>>>>,
    <<525, <<111, 783>>>>, <<526, <<79, 785>>>>, <<527, <<111, 785>>>>, <<528, <<82, 783>>>>,
    <<529, <<114, 783>>>>, <<530, <<82, 785>>>>, <<531, <<114, 785>>>>, <<532, <<85, 783>>>>,
    <<533, <<117, 783>>>>, <<534, <<85, 785>>>>, <<535, <<117, 785>>>>, <<536, <<83, 806>>>>,
    <<537, <<115, 806>>>>, <<538, <<84, 806>>>>, <<539, <<116, 806>>>>, <<542, <<72, 780>>>>,
    <<543, <<104, 780>>>>, <<550, <<65, 775>>>>, <<551, <<97, 775>>>>, <<552, <<69, 807>>>>,
    <<553, <<101, 807>>>>, <<554, <<79, 776, 772>>>>, <<555, <<111, 776, 772>>>>,
    <<556, <<79, 771, 772>>>>, <<557, <<111, 771, 772>>>>, <<558, <<79, 775>>>>,
    <<559, <<111, 775>>>>, <<560, <<79, 775, 772>>>>, <<561, <<111, 775, 772>>>>,
    <<562, <<89, 772>>>>, <<563, <<121, 772>>>>, <<688, <<104>>>>, <<689, <<614>>>>,
    <<690, <<106>>>>, <<691, <<114>>>>, <<692, <<633>>>>, <<693, <<635>>>>, <<694, <<641>>>>,
    <<695, <<119>>>>, <<696, <<121>>>>, <<728, <<32, 774>>>>, <<729, <<32, 775>>>>,
    <<730, <<32, 778>>>>, <<731, <<32, 808>>>>, <<732, <<32, 771>>>>, <<733, <<32, 779>>>>,
    <<736, <<611>>>>, <<737, <<108>>>>, <<738, <<115>>>>, <<739, <<120>>>>, <<740, <<661>>>>,
    <<832, <<768>>>>, <<833, <<769>>>>, <<835, <<787>>>>, <<836, <<776, 769>>>>,
    <<884, <<697>>>>, <<890, <<32, 837>>>>, <<894, <<59>>>>, <<900, <<32, 769>>>>,
    <<901, <<32, 776, 769>>>>, <<902, <<913, 769>>>>, <<903, <<183>>>>, <<904, <<917, 769>>>>,
    <<905, <<919, 769>>>>, <<906, <<921, 769>>>>, <<908, <<927, 769>>>>, <<910, <<933, 769>>>>,
    <<911, <<937, 769>>>>, <<912, <<953, 776, 769>>>>, <<938, <<921, 776>>>>,
    <<939, <<933, 776>>>>, <<940, <<945, 769>>>>, <<941, <<949, 769>>>>, <<942, <<951, 769>>>>,
    <<943, <<953, 769>>>>, <<944, <<965, 776, 769>>>>, <<970, <<953, 776>>>>,
    <<971, <<965, 776>>>>, <<972, <<959, 769>>>>, <<973, <<965, 769>>>>, <<974, <<969, 769>>>>,
    <<976, <<946>>>>, <<977, <<952>>>>, <<978, <<933>>>>, <<979, <<933, 769>>>>,
    <<980, <<933, 776>>>>, <<981, <<966>>>>, <<982, <<960>>>>, <<1008, <<954>>>>,
    <<1009, <<961>>>>, <<1010, <<962>>>>, <<1012, <<920>>>>, <<1013, <<949>>>>,
    <<1017, <<931>>>>, <<1024, <<1045, 768>>>>, <<1025, <<1045, 776>>>>,
    <<1027, <<1043, 769>>>>, <<1031, <<1030, 776>>>>, <<1036, <<1050, 769>>>>,
    <<1037, <<1048, 768>>>>, <<1038, <<1059, 774>>>>, <<1049, <<1048, 774>>>>,
    <<1081, <<1080, 774>>>>, <<1104, <<1077, 768>>>>, <<1105, <<1077, 776>>>>,
    <<1107, <<1075, 769>>>>, <<1111, <<1110, 776>>>>, <<1116, <<1082, 769>>>>,
    <<1117, <<1080, 768>>>>, <<1118, <<1091, 774>>>>, <<1142, <<1140, 783>>>>,
    <<1143, <<1141, 783>>>>, <<1217, <<1046, 774>>>>, <<1218, <<1078, 774>>>>,
    <<1232, <<1040, 774>>>>, <<1233, <<1072, 774>>>>, <<1234, <<1040, 776>>>>,
    <<1235, <<1072, 776>>>>, <<1238, <<1045, 774>>>>, <<1239, <<1077, 774>>>>,
    <<1242, <<1240, 776>>>>, <<1243, <<1241, 776>>>>, <<1244, <<1046, 776>>>>,
    <<1245, <<1078, 776>>>>, <<1246, <<1047, 776>>>>, <<1247, <<1079, 776>>>>,
    <<1250, <<1048, 772>>>>, <<1251, <<1080, 772>>>>, <<1252, <<1048, 776>>>>,
    <<1253, <<1080, 776>>>>, <<1254, <<1054, 776>>>>, <<1255, <<1086, 776>>>>,
    <<1258, <<1256, 776>>>>, <<1259, <<1257, 776>>>>, <<1260, <<1069, 776>>>>,
    <<1261, <<1101, 776>>>>, <<1262, <<1059, 772>>>>, <<1263, <<1091, 772>>>>,
    <<1264, <<1059, 776>>>>, <<1265, <<1091, 776>>>>, <<1266, <<1059, 779>>>>,
    <<1267, <<1091, 779>>>>, <<1268, <<1063, 776>>>>, <<1269, <<1095, 776>>>>,
    <<1272, <<1067, 776>>>>, <<1273, <<1099, 776>>>>, <<1415, <<1381, 1410>>>>,
    <<1570, <<1575, 1619>>>>, <<1571, <<1575, 1620>>>>, <<1572, <<1608, 1620>>>>,
    <<1573, <<1575, 1621>>>>, <<1574, <<1610, 1620>>>>, <<1653, <<1575, 1652>>>>,
    <<1654, <<1608, 1652>>>>, <<1655, <<1735, 1652>>>>, <<1656, <<1610, 1652>>>>,
    <<1728, <<1749, 1620>>>>, <<1730, <<1729, 1620>>>>, <<1747, <<1746, 1620>>>>,
    <<2345, <<2344, 2364>>>>, <<2353, <<2352, 2364>>>>, <<2356, <<2355, 2364>>>>,
    <<2392, <<2325, 2364>>>>, <<2393, <<2326, 2364>>>>, <<2394, <<2327, 2364>>>>,
    <<2395, <<2332, 2364>>>>, <<2396, <<2337, 2364>>>>, <<2397, <<2338, 2364>>>>,
    <<2398, <<2347, 2364>>>>, <<2399, <<2351, 2364>>>>, <<2507, <<2503, 2494>>>>,
    <<2508, <<2503, 2519>>>>, <<2524, <<2465, 2492>>>>, <<2525, <<2466, 2492>>>>,
    <<2527, <<2479, 2492>>>>, <<2611, <<2610, 2620>>>>, <<2614, <<2616, 2620>>>>,
    <<2649, <<2582, 2620>>>>, <<2650, <<2583, 2620>>>>, <<2651, <<2588, 2620>>>>,
    <<2654, <<2603, 2620>>>>, <<2888, <<2887, 2902>>>>, <<2891, <<2887, 2878>>>>,
    <<2892, <<2887, 2903>>>>, <<2908, <<2849, 2876>>>>, <<2909, <<2850, 2876>>>>,
    <<2964, <<2962, 3031>>>>, <<3018, <<3014, 3006>>>>, <<3019, <<3015, 3006>>>>,
    <<3020, <<3014, 3031>>>>, <<3144, <<3142, 3158>>>>, <<3264, <<3263, 3285>>>>,
    <<3271, <<3270, 3285>>>>, <<3272, <<3270, 3286>>>>, <<3274, <<3270, 3266>>>>,
    <<3275, <<3270, 3266, 3285>>>>, <<3402, <<3398, 3390>>>>, <<3403, <<3399, 3390>>>>,
    <<3404, <<3398, 3415>>>>, <<3546, <<3545, 3530>>>>, <<3548, <<3545, 3535>>>>,
    <<3549, <<3545, 3535, 3530>>>>, <<3550, <<3545, 3551>>>>, <<3635, <<3661, 3634>>>>,
    <<3763, <<3789, 3762>>>>, <<3804, <<3755, 3737>>>>, <<3805, <<3755, 3745>>>>,
    <<3852, <<3851>>>>, <<3907, <<3906, 4023>>>>, <<3917, <<3916, 4023>>>>,
    <<3922, <<3921, 4023>>>>, <<3927, <<3926, 4023>>>>, <<3932, <<3931, 4023>>>>,
    <<3945, <<3904, 4021>>>>, <<3955, <<3953, 3954>>>>, <<3957, <<3953, 3956>>>>,
    <<3958, <<4018, 3968>>>>, <<3959, <<4018, 3953, 3968>>>>, <<3960, <<4019, 3968>>>>,
    <<3961, <<4019, 3953, 3968>>>>, <<3969, <<3953, 3968>>>>, <<3987, <<3986, 4023>>>>,
    <<3997, <<3996, 4023>>>>, <<4002, <<4001, 4023>>>>, <<4007, <<4006, 4023>>>>,
    <<4012, <<4011, 4023>>>>, <<4025, <<3984, 4021>>>>, <<4134, <<4133, 4142>>>>,
    <<4348, <<4316>>>>, <<6918, <<6917, 6965>>>>, <<6920, <<6919, 6965>>>>,
    <<6922, <<6921, 6965>>>>, <<6924, <<6923, 6965>>>>, <<6926, <<6925, 6965>>>>,
    <<6930, <<6929, 6965>>>>, <<6971, <<6970, 6965>>>>, <<6973, <<6972, 6965>>>>,
    <<6976, <<6974, 6965>>>>, <<6977, <<6975, 6965>>>>, <<6979, <<6978, 6965>>>>,
    <<7468, <<65>>>>, <<7469, <<198>>>>, <<7470, <<66>>>>, <<7472, <<68>>>>, <<7473, <<69>>>>,
    <<7474, <<398>>>>, <<7475, <<71>>>>, <<7476, <<72>>>>, <<7477, <<73>>>>, <<7478, <<74>>>>,
    <<7479, <<75>>>>, <<7480, <<76>>>>, <<7481, <<77>>>>, <<7482, <<78>>>>, <<7484, <<79>>>>,
    <<7485, <<546>>>>, <<7486, <<80>>>>, <<7487, <<82>>>>, <<7488, <<84>>>>, <<7489, <<85>>>>,
    <<7490, <<87>>>>, <<7491, <<97>>>>, <<7492, <<592>>>>, <<7493, <<593>>>>,
    <<7494, <<7426>>>>, <<7495, <<98>>>>, <<7496, <<100>>>>, <<7497, <<101>>>>,
    <<7498, <<601>>>>, <<7499, <<603>>>>, <<7500, <<604>>>>, <<7501, <<103>>>>,
    <<7503, <<107>>>>, <<7504, <<109>>>>, <<7505, <<331>>>>, <<7506, <<111>>>>,
    <<7507, <<596>>>>, <<7508, <<7446>>>>, <<7509, <<7447>>>>, <<7510, <<112>>>>,
    <<7511, <<116>>>>, <<7512, <<117>>>>, <<7513, <<7453>>>>, <<7514, <<623>>>>,
    <<7515, <<118>>>>, <<7516, <<7461>>>>, <<7517, <<946>>>>, <<7518, <<947>>>>,
    <<7519, <<948>>>>, <<7520, <<966>>>>, <<7521, <<967>>>>, <<7522, <<105>>>>,
    <<7523, <<114>>>>, <<7524, <<117>>>>, <<7525, <<118>>>>, <<7526, <<946>>>>,
    <<7527, <<947>>>>, <<7528, <<961>>>>, <<7529, <<966>>>>, <<7530, <<967>>>>,
    <<7544, <<1085>>>>, <<7579, <<594>>>>, <<7580, <<99>>>>, <<7581, <<597>>>>,
    <<7582, <<240>>>>, <<7583, <<604>>>>, <<7584, <<102>>>>, <<7585, <<607>>>>,
    <<7586, <<609>>>>, <<7587, <<613>>>>, <<7588, <<616>>>>, <<7589, <<617>>>>,
    <<7590, <<618>>>>, <<7591, <<7547>>>>, <<7592, <<669>>>>, <<7593, <<621>>>>,
    <<7594, <<7557>>>>, <<7595, <<671>>>>, <<7596, <<625>>>>, <<7597, <<624>>>>,
    <<7598, <<626>>>>, <<7599, <<627>>>>, <<7600, <<628>>>>, <<7601, <<629>>>>,
    <<7602, <<632>>>>, <<7603, <<642>>>>, <<7604, <<643>>>>, <<7605, <<427>>>>,
    <<7606, <<649>>>>, <<7607, <<650>>>>, <<7608, <<7452>>>>, <<7609, <<651>>>>,
    <<7610, <<652>>>>, <<7611, <<122>>>>, <<7612, <<656>>>>, <<7613, <<657>>>>,
    <<7614, <<658>>>>, <<7615, <<952>>>>, <<7680, <<65, 805>>>>, <<7681, <<97, 805>>>>,
    <<7682, <<66, 775>>>>, <<7683, <<98, 775>>>>, <<7684, <<66, 803>>>>, <<7685, <<98, 803>>>>,
    <<7686, <<66, 817>>>>, <<7687, <<98, 817>>>>, <<7688, <<67, 807, 769>>>>,
    <<7689, <<99, 807, 769>>>>, <<7690, <<68, 775>>>>, <<7691, <<100, 775>>>>,
    <<7692, <<68, 803>>>>, <<7693, <<100, 803>>>>, <<7694, <<68, 817>>>>,
    <<7695, <<100, 817>>>>, <<7696, <<68, 807>>>>, <<7697, <<100, 807>>>>,
    <<7698, <<68, 813>>>>, <<7699, <<100, 813>>>>, <<7700, <<69, 772, 768>>>>,
    <<7701, <<101, 772, 768>>>>, <<7702, <<69, 772, 769>>>>, <<7703, <<101, 772, 769>>>>,
    <<7704, <<69, 813>>>>, <<7705, <<101, 813>>>>, <<7706, <<69, 816>>>>,
    <<7707, <<101, 816>>>>, <<7708, <<69, 807, 774>>>>, <<7709, <<101, 807, 774>>>>,
    <<7710, <<70, 775>>>>, <<7711, <<102, 775>>>>, <<7712, <<71, 772>>>>,
    <<7713, <<103, 772>>>>, <<7714, <<72, 775>>>>, <<7715, <<104, 775>>>>,
    <<7716, <<72, 803>>>>, <<7717, <<104, 803>>>>, <<7718, <<72, 776>>>>,
    <<7719, <<104, 776>>>>, <<7720, <<72, 807>>>>, <<7721, <<104, 807>>>>,
    <<7722, <<72, 814>>>>, <<7723, <<104, 814>>>>, <<7724, <<73, 816>>>>,
    <<7725, <<105, 816>>>>, <<7726, <<73, 776, 769>>>>, <<7727, <<105, 776, 769>>>>,
    <<7728, <<75, 769>>>>, <<7729, <<107, 769>>>>, <<7730, <<75, 803>>>>,
    <<7731, <<107, 803>>>>, <<7732, <<75, 817>>>>, <<7733, <<107, 817>>>>,
    <<7734, <<76, 803>>>>, <<7735, <<108, 803>>>>, <<7736, <<76, 803, 772>>>>,
    <<7737, <<108, 803, 772>>>>, <<7738, <<76, 817>>>>, <<7739, <<108, 817>>>>,
    <<7740, <<76, 813>>>>, <<7741, <<108, 813>>>>, <<7742, <<77, 769>>>>,
    <<7743, <<109, 769>>>>, <<7744, <<77, 775>>>>, <<7745, <<109, 775>>>>,
    <<7746, <<77, 803>>>>, <<7747, <<109, 803>>>>, <<7748, <<78, 775>>>>,
    <<7749, <<110, 775>>>>, <<7750, <<78, 803>>>>, <<7751, <<110, 803>>>>,
    <<7752, <<78, 817>>>>, <<7753, <<110, 817>>>>, <<7754, <<78, 813>>>>,
    <<7755, <<110, 813>>>>, <<7756, <<79, 771, 769>>>>, <<7757, <<111, 771, 769>>>>,
    <<7758, <<79, 771, 776>>>>, <<7759, <<111, 771, 776>>>>, <<7760, <<79, 772, 768>>>>,
    <<7761, <<111, 772, 768>>>>, <<7762, <<79, 772, 769>>>>, <<7763, <<111, 772, 769>>>>,
    <<7764, <<80, 769>>>>, <<7765, <<112, 769>>>>, <<7766, <<80, 775>>>>,
    <<7767, <<112, 775>>>>, <<7768, <<82, 775>>>>, <<7769, <<114, 775>>>>,
    <<7770, <<82, 803>>>>, <<7771, <<114, 803>>>>, <<7772, <<82, 803, 772>>>>,
    <<7773, <<114, 803, 772>>>>, <<7774, <<82, 817>>>>, <<7775, <<114, 817>>>>,
    <<7776, <<83, 775>>>>, <<7777, <<115, 775>>>>, <<7778, <<83, 803>>>>,
    <<7779, <<115, 803>>>>, <<7780, <<83, 769, 775>>>>, <<7781, <<115, 769, 775>>>>,
    <<7782, <<83, 780, 775>>>>, <<7783, <<115, 780, 775>>>>, <<7784, <<83, 803, 775>>>>,
    <<7785, <<115, 803, 775>>>>, <<7786, <<84, 775>>>>, <<7787, <<116, 775>>>>,
    <<7788, <<84, 803>>>>, <<7789, <<116, 803>>>>, <<7790, <<84, 817>>>>,
    <<7791, <<116, 817>>>>, <<7792, <<84, 813>>>>, <<7793, <<116, 813>>>>,
    <<7794, <<85, 804>>>>, <<7795, <<117, 804>>>>, <<7796, <<85, 816>>>>,
    <<7797, <<117, 816>>>>, <<7798, <<85, 813>>>>, <<7799, <<117, 813>>>>,
    <<7800, <<85, 771, 769>>>>, <<7801, <<117, 771, 769>>>>, <<7802, <<85, 772, 776>>>>,
    <<7803, <<117, 772, 776>>>>, <<7804, <<86, 771>>>>, <<7805, <<118, 771>>>>,
    <<7806, <<86, 803>>>>, <<7807, <<118, 803>>>>, <<7808, <<87, 768>>>>,
    <<7809, <<119, 768>>>>, <<7810, <<87, 769>>>>, <<7811, <<119, 769>>>>,
    <<7812, <<87, 776>>>>, <<7813, <<119, 776>>>>, <<7814, <<87, 775>>>>,
    <<7815, <<119, 775>>>>, <<7816, <<87, 803>>>>, <<7817, <<119, 803>>>>,
    <<7818, <<88, 775>>>>, <<7819, <<120, 775>>>>, <<7820, <<88, 776>>>>,
    <<7821, <<120, 776>>>>, <<7822, <<89, 775>>>>, <<7823, <<121, 775>>>>,
    <<7824, <<90, 770>>>>, <<7825, <<122, 770>>>>, <<7826, <<90, 803>>>>,
    <<7827, <<122, 803>>>>, <<7828, <<90, 817>>>>, <<7829, <<122, 817>>>>,
    <<7830, <<104, 817>>>>, <<7831, <<116, 776>>>>, <<7832, <<119, 778>>>>,
    <<7833, <<121, 778>>>>, <<7834, <<97, 702>>>>, <<7835, <<115, 775>>>>,
    <<7840, <<65, 803>>>>, <<7841, <<97, 803>>>>, <<7842, <<65, 777>>>>, <<7843, <<97, 777>>>>,
    <<7844, <<65, 770, 769>>>>, <<7845, <<97, 770, 769>>>>, <<7846, <<65, 770, 768>>>>,
    <<7847, <<97, 770, 768>>>>, <<7848, <<65, 770, 777>>>>, <<7849, <<97, 770, 777>>>>,
    <<7850, <<65, 770, 771>>>>, <<7851, <<97, 770, 771>>>>, <<7852, <<65, 803, 770>>>>,
    <<7853, <<97, 803, 770>>>>, <<7854, <<65, 774, 769>>>>, <<7855, <<97, 774, 769>>>>,
    <<7856, <<65, 774, 768>>>>, <<7857, <<97, 774, 768>>>>, <<7858, <<65, 774, 777>>>>,
    <<7859, <<97, 774, 777>>>>, <<7860, <<65, 774, 771>>>>, <<7861, <<97, 774, 771>>>>,
    <<7862, <<65, 803, 774>>>>, <<7863, <<97, 803, 774>>>>, <<7864, <<69, 803>>>>,
    <<7865, <<101, 803>>>>, <<7866, <<69, 777>>>>, <<7867, <<101, 777>>>>,
    <<7868, <<69, 771>>>>, <<7869, <<101, 771>>>>, <<7870, <<69, 770, 769>>>>,
    <<7871, <<101, 770, 769>>>>, <<7872, <<69, 770, 768>>>>, <<7873, <<101, 770, 768>>>>,
    <<7874, <<69, 770, 777>>>>, <<7875, <<101, 770, 777>>>>, <<7876, <<69, 770, 771>>>>,
    <<7877, <<101, 770, 771>>>>, <<7878, <<69, 803, 770>>>>, <<7879, <<101, 803, 770>>>>,
    <<7880, <<73, 777>>>>, <<7881, <<105, 777>>>>, <<7882, <<73, 803>>>>,
    <<7883, <<105, 803>>>>, <<7884, <<79, 803>>>>, <<7885, <<111, 803>>>>,
    <<7886, <<79, 777>>>>, <<7887, <<111, 777>>>>, <<7888, <<79, 770, 769>>>>,
    <<7889, <<111, 770, 769>>>>, <<7890, <<79, 770, 768>>>>, <<7891, <<111, 770, 768>>>>,
    <<7892, <<79, 770, 777>>>>, <<7893, <<111, 770, 777>>>>, <<7894, <<79, 770, 771>>>>,
    <<7895, <<111, 770, 771>>>>, <<7896, <<79, 803, 770>>>>, <<7897, <<111, 803, 770>>>>,
    <<7898, <<79, 795, 769>>>>, <<7899, <<111, 795, 769>>>>, <<7900, <<79, 795, 768>>>>,
    <<7901, <<111, 795, 768>>>>, <<7902, <<79, 795, 777>>>>, <<7903, <<111, 795, 777>>>>,
    <<7904, <<79, 795, 771>>>>, <<7905, <<111, 795, 771>>>>, <<7906, <<79, 795, 803>>>>,
    <<7907, <<111, 795, 803>>>>, <<7908, <<85, 803>>>>, <<7909, <<117, 803>>>>,
    <<7910, <<85, 777>>>>, <<7911, <<117, 777>>>>, <<7912, <<85, 795, 769>>>>,
    <<7913, <<117, 795, 769>>>>, <<7914, <<85, 795, 768>>>>, <<7915, <<117, 795, 768>>>>,
    <<7916, <<85, 795, 777>>>>, <<7917, <<117, 795, 777>>>>, <<7918, <<85, 795, 771>>>>,
    <<7919, <<117, 795, 771>>>>, <<7920, <<85, 795, 803>>>>, <<7921, <<117, 795, 803>>>>,
    <<7922, <<89, 768>>>>, <<7923, <<121, 768>>>>, <<7924, <<89, 803>>>>,
    <<7925, <<121, 803>>>>, <<7926, <<89, 777>>>>, <<7927, <<121, 777>>>>,
    <<7928, <<89, 771>>>>, <<7929, <<121, 771>>>>, <<7936, <<945, 787>>>>,
    <<7937, <<945, 788>>>>, <<7938, <<945, 787, 768>>>>, <<7939, <<945, 788, 768>>>>,
    <<7940, <<945, 787, 769>>>>, <<7941, <<945, 788, 769>>>>, <<7942, <<945, 787, 834>>>>,
    <<7943, <<945, 788, 834>>>>, <<7944, <<913, 787>>>>, <<7945, <<913, 788>>>>,
    <<7946, <<913, 787, 768>>>>, <<7947, <<913, 788, 768>>>>, <<7948, <<913, 787, 769>>>>,
    <<7949, <<913, 788, 769>>>>, <<7950, <<913, 787, 834>>>>, <<7951, <<913, 788, 834>>>>,
    <<7952, <<949, 787>>>>, <<7953, <<949, 788>>>>, <<7954, <<949, 787, 768>>>>,
    <<7955, <<949, 788, 768>>>>, <<7956, <<949, 787, 769>>>>, <<7957, <<949, 788, 769>>>>,
    <<7960, <<917, 787>>>>, <<7961, <<917, 788>>>>, <<7962, <<917, 787, 768>>>>,
    <<7963, <<917, 788, 768>>>>, <<7964, <<917, 787, 769>>>>, <<7965, <<917, 788, 769>>>>,
    <<7968, <<951, 787>>>>, <<7969, <<951, 788>>>>, <<7970, <<951, 787, 768>>>>,
    <<7971, <<951, 788, 768>>>>, <<7972, <<951, 787, 769>>>>, <<7973, <<951, 788, 769>>>>,
    <<7974, <<951, 787, 834>>>>, <<7975, <<951, 788, 834>>>>, <<7976, <<919, 787>>>>,
    <<7977, <<919, 788>>>>, <<7978, <<919, 787, 768>>>>, <<7979, <<919, 788, 768>>>>,
    <<7980, <<919, 787, 769>>>>, <<7981, <<919, 788, 769>>>>, <<7982, <<919, 787, 834>>>>,
    <<7983, <<919, 788, 834>>>>, <<7984, <<953, 787>>>>, <<7985, <<953, 788>>>>,
    <<7986, <<953, 787, 768>>>>, <<7987, <<953, 788, 768>>>>, <<7988, <<953, 787, 769>>>>,
    <<7989, <<953, 788, 769>>>>, <<7990, <<953, 787, 834>>>>, <<7991, <<953, 788, 834>>>>,
    <<7992, <<921, 787>>>>, <<7993, <<921, 788>>>>, <<7994, <<921, 787, 768>>>>,
    <<7995, <<921, 788, 768>>>>, <<7996, <<921, 787, 769>>>>, <<7997, <<921, 788, 769>>>>,
    <<7998, <<921, 787, 834>>>>, <<7999, <<921, 788, 834>>>>, <<8000, <<959, 787>>>>,
    <<8001, <<959, 788>>>>, <<8002, <<959, 787, 768>>>>, <<8003, <<959, 788, 768>>>>,
    <<8004, <<959, 787, 769>>>>, <<8005, <<959, 788, 769>>>>, <<8008, <<927, 787>>>>,
    <<8009, <<927, 788>>>>, <<8010, <<927, 787, 768>>>>, <<8011, <<927, 788, 768>>>>,
    <<8012, <<927, 787, 769>>>>, <<8013, <<927, 788, 769>>>>, <<8016, <<965, 787>>>>,
    <<8017, <<965, 788>>>>, <<8018, <<965, 787, 768>>>>, <<8019, <<965, 788, 768>>>>,
    <<8020, <<965, 787, 769>>>>, <<8021, <<965, 788, 769>>>>, <<8022, <<965, 787, 834>>>>,
    <<8023, <<965, 788, 834>>>>, <<8025, <<933, 788>>>>, <<8027, <<933, 788, 768>>>>,
    <<8029, <<933, 788, 769>>>>, <<8031, <<933, 788, 834>>>>, <<8032, <<969, 787>>>>,
    <<8033, <<969, 788>>>>, <<8034, <<969, 787, 768>>>>, <<8035, <<969, 788, 768>>>>,
    <<8036, <<969, 787, 769>>>>, <<8037, <<969, 788, 769>>>>, <<8038, <<969, 787, 834>>>>,
    <<8039, <<969, 788, 834>>>>, <<8040, <<937, 787>>>>, <<8041, <<937, 788>>>>,
    <<8042, <<937, 787, 768>>>>, <<8043, <<937, 788, 768>>>>, <<8044, <<937, 787, 769>>>>,
    <<8045, <<937, 788, 769>>>>, <<8046, <<937, 787, 834>>>>, <<8047, <<937, 788, 834>>>>,
    <<8048, <<945, 768>>>>, <<8049, <<945, 769>>>>, <<8050, <<949, 768>>>>,
    <<8051, <<949, 769>>>>, <<8052, <<951, 768>>>>, <<8053, <<951, 769>>>>,
    <<8054, <<953, 768>>>>, <<8055, <<953, 769>>>>, <<8056, <<959, 768>>>>,
    <<8057, <<959, 769>>>>, <<8058, <<965, 768>>>>, <<8059, <<965, 769>>>>,
    <<8060, <<969, 768>>>>, <<8061, <<969, 769>>>>, <<8064, <<945, 787, 837>>>>,
    <<8065, <<945, 788, 837>>>>, <<8066, <<945, 787, 768, 837>>>>,
    <<8067, <<945, 788, 768, 837>>>>, <<8068, <<945, 787, 769, 837>>>>,
    <<8069, <<945, 788, 769, 837>>>>, <<8070, <<945, 787, 834, 837>>>>,
    <<8071, <<945, 788, 834, 837>>>>, <<8072, <<913, 787, 837>>>>, <<8073, <<913, 788, 837>>>>,
    <<8074, <<913, 787, 768, 837>>>>, <<8075, <<913, 788, 768, 837>>>>,
    <<8076, <<913, 787, 769, 837>>>>, <<8077, <<913, 788, 769, 837>>>>,
    <<8078, <<913, 787, 834, 837>>>>, <<8079, <<913, 788, 834, 837>>>>,
    <<8080, <<951, 787, 837>>>>, <<8081, <<951, 788, 837>>>>, <<8082, <<951, 787, 768, 837>>>>,
    <<8083, <<951, 788, 768, 837>>>>, <<8084, <<951, 787, 769, 837>>>>,
    <<8085, <<951, 788, 769, 837>>>>, <<8086, <<951, 787, 834, 837>>>>,
    <<8087, <<951, 788, 834, 837>>>>, <<8088, <<919, 787, 837>>>>, <<8089, <<919, 788, 837>>>>,
    <<8090, <<919, 787, 768, 837>>>>, <<8091, <<919, 788, 768, 837>>>>,
    <<8092, <<919, 787, 769, 837>>>>, <<8093, <<919, 788, 769, 837>>>>,
    <<8094, <<919, 787, 834, 837>>>>, <<8095, <<919, 788, 834, 837>>>>,
    <<8096, <<969, 787, 837>>>>, <<8097, <<969, 788, 837>>>>, <<8098, <<969, 787, 768, 837>>>>,
    <<8099, <<969, 788, 768, 837>>>>, <<8100, <<969, 787, 769, 837>>>>,
    <<8101, <<969, 788, 769, 837>>>>, <<8102, <<969, 787, 834, 837>>>>,
    <<8103, <<969, 788, 834, 837>>>>, <<8104, <<937, 787, 837>>>>, <<8105, <<937, 788, 837>>>>,
    <<8106, <<937, 787, 768, 837>>>>, <<8107, <<937, 788, 768, 837>>>>,
    <<8108, <<937, 787, 769, 837>>>>, <<8109, <<937, 788, 769, 837>>>>,
    <<8110, <<937, 787, 834, 837>>>>, <<8111, <<937, 788, 834, 837>>>>, <<8112, <<945, 774>>>>,
    <<8113, <<945, 772>>>>, <<8114, <<945, 768, 837>>>>, <<8115, <<945, 837>>>>,
    <<8116, <<945, 769, 837>>>>, <<8118, <<945, 834>>>>, <<8119, <<945, 834, 837>>>>,
    <<8120, <<913, 774>>>>, <<8121, <<913, 772>>>>, <<8122, <<913, 768>>>>,
    <<8123, <<913, 769>>>>, <<8124, <<913, 837>>>>, <<8125, <<32, 787>>>>, <<8126, <<953>>>>,
    <<8127, <<32, 787>>>>, <<8128, <<32, 834>>>>, <<8129, <<32, 776, 834>>>>,
    <<8130, <<951, 768, 837>>>>, <<8131, <<951, 837>>>>, <<8132, <<951, 769, 837>>>>,
    <<8134, <<951, 834>>>>, <<8135, <<951, 834, 837>>>>, <<8136, <<917, 768>>>>,
    <<8137, <<917, 769>>>>, <<8138, <<919, 768>>>>, <<8139, <<919, 769>>>>,
    <<8140, <<919, 837>>>>, <<8141, <<32, 787, 768>>>>, <<8142, <<32, 787, 769>>>>,
    <<8143, <<32, 787, 834>>>>, <<8144, <<953, 774>>>>, <<8145, <<953, 772>>>>,
    <<8146, <<953, 776, 768>>>>, <<8147, <<953, 776, 769>>>>, <<8150, <<953, 834>>>>,
    <<8151, <<953, 776, 834>>>>, <<8152, <<921, 774>>>>, <<8153, <<921, 772>>>>,
    <<8154, <<921, 768>>>>, <<8155, <<921, 769>>>>, <<8157, <<32, 788, 768>>>>,
    <<8158, <<32, 788, 769>>>>, <<8159, <<32, 788, 834>>>>, <<8160, <<965, 774>>>>,
    <<8161, <<965, 772>>>>, <<8162, <<965, 776, 768>>>>, <<8163, <<965, 776, 769>>>>,
    <<8164, <<961, 787>>>>, <<8165, <<961, 788>>>>, <<8166, <<965, 834>>>>,
    <<8167, <<965, 776, 834>>>>, <<8168, <<933, 774>>>>, <<8169, <<933, 772>>>>,
    <<8170, <<933, 768>>>>, <<8171, <<933, 769>>>>, <<8172, <<929, 788>>>>,
    <<8173, <<32, 776, 768>>>>, <<8174, <<32, 776, 769>>>>, <<8175, <<96>>>>,
    <<8178, <<969, 768, 837>>>>, <<8179, <<969, 837>>>>, <<8180, <<969, 769, 837>>>>,
    <<8182, <<969, 834>>>>, <<8183, <<969, 834, 837>>>>, <<8184, <<927, 768>>>>,
    <<8185, <<927, 769>>>>, <<8186, <<937, 768>>>>, <<8187, <<937, 769>>>>,
    <<8188, <<937, 837>>>>, <<8189, <<32, 769>>>>, <<8190, <<32, 788>>>>, <<8192, <<32>>>>,
    <<8193, <<32>>>>, <<8194, <<32>>>>, <<8195, <<32>>>>, <<8196, <<32>>>>, <<8197, <<32>>>>,
    <<8198, <<32>>>>, <<8199, <<32>>>>, <<8200, <<32>>>>, <<8201, <<32>>>>, <<8202, <<32>>>>,
    <<8209, <<8208>>>>, <<8215, <<32, 819>>>>, <<8228, <<46>>>>, <<8229, <<46, 46>>>>,
    <<8230, <<46, 46, 46>>>>, <<8239, <<32>>>>, <<8243, <<8242, 8242>>>>,
    <<8244, <<8242, 8242, 8242>>>>, <<8246, <<8245, 8245>>>>, <<8247, <<8245, 8245, 8245>>>>,
    <<8252, <<33, 33>>>>, <<8254, <<32, 773>>>>, <<8263, <<63, 63>>>>, <<8264, <<63, 33>>>>,
    <<8265, <<33, 63>>>>, <<8279, <<8242, 8242, 8242, 8242>>>>, <<8287, <<32>>>>,
    <<8304, <<48>>>>, <<8305, <<105>>>>, <<8308, <<52>>>>, <<8309, <<53>>>>, <<8310, <<54>>>>,
    <<8311, <<55>>>>, <<8312, <<56>>>>, <<8313, <<57>>>>, <<8314, <<43>>>>, <<8315, <<8722>>>>,
    <<8316, <<61>>>>, <<8317, <<40>>>>, <<8318, <<41>>>>, <<8319, <<110>>>>, <<8320, <<48>>>>,
    <<8321, <<49>>>>, <<8322, <<50>>>>, <<8323, <<51>>>>, <<8324, <<52>>>>, <<8325, <<53>>>>,
    <<8326, <<54>>>>, <<8327, <<55>>>>, <<8328, <<56>>>>, <<8329, <<57>>>>, <<8330, <<43>>>>,
    <<8331, <<8722>>>>, <<8332, <<61>>>>, <<8333, <<40>>>>, <<8334, <<41>>>>, <<8336, <<97>>>>,
    <<8337, <<101>>>>, <<8338, <<111>>>>, <<8339, <<120>>>>, <<8340, <<601>>>>,
    <<8341, <<104>>>>, <<8342, <<107>>>>, <<8343, <<108>>>>, <<8344, <<109>>>>,
    <<8345, <<110>>>>, <<8346, <<112>>>>, <<8347, <<115>>>>, <<8348, <<116>>>>,
    <<8360, <<82, 115>>>>, <<8448, <<97, 47, 99>>>>, <<8449, <<97, 47, 115>>>>,
    <<8450, <<67>>>>, <<8451, <<176, 67>>>>, <<8453, <<99, 47, 111>>>>,
    <<8454, <<99, 47, 117>>>>, <<8455, <<400>>>>, <<8457, <<176, 70>>>>, <<8458, <<103>>>>,
    <<8459, <<72>>>>, <<8460, <<72>>>>, <<8461, <<72>>>>, <<8462, <<104>>>>, <<8463, <<295>>>>,
    <<8464, <<73>>>>, <<8465, <<73>>>>, <<8466, <<76>>>>, <<8467, <<108>>>>, <<8469, <<78>>>>,
    <<8470, <<78, 111>>>>, <<8473, <<80>>>>, <<8474, <<81>>>>, <<8475, <<82>>>>,
    <<8476, <<82>>>>, <<8477, <<82>>>>, <<8480, <<83, 77>>>>, <<8481, <<84, 69, 76>>>>,
    <<8482, <<84, 77>>>>, <<8484, <<90>>>>, <<8486, <<937>>>>, <<8488, <<90>>>>,
    <<8490, <<75>>>>, <<8491, <<65, 778>>>>, <<8492, <<66>>>>, <<8493, <<67>>>>,
    <<8495, <<101>>>>, <<8496, <<69>>>>, <<8497, <<70>>>>, <<8499, <<77>>>>, <<8500, <<111>>>>,
    <<8501, <<1488>>>>, <<8502, <<1489>>>>, <<8503, <<1490>>>>, <<8504, <<1491>>>>,
    <<8505, <<105>>>>, <<8507, <<70, 65, 88>>>>, <<8508, <<960>>>>, <<8509, <<947>>>>,
    <<8510, <<915>>>>, <<8511, <<928>>>>, <<8512, <<8721>>>>, <<8517, <<68>>>>,
    <<8518, <<100>>>>, <<8519, <<101>>>>, <<8520, <<105>>>>, <<8521, <<106>>>>,
    <<8528, <<49, 8260, 55>>>>, <<8529, <<49, 8260, 57>>>>, <<8530, <<49, 8260, 49, 48>>>>,
    <<8531, <<49, 8260, 51>>>>, <<8532, <<50, 8260, 51>>>>, <<8533, <<49, 8260, 53>>>>,
    <<8534, <<50, 8260, 53>>>>, <<8535, <<51, 8260, 53>>>>, <<8536, <<52, 8260, 53>>>>,
    <<8537, <<49, 8260, 54>>>>, <<8538, <<53, 8260, 54>>>>, <<8539, <<49, 8260, 56>>>>,
    <<8540, <<51, 8260, 56>>>>, <<8541, <<53, 8260, 56>>>>, <<8542, <<55, 8260, 56>>>>,
    <<8543, <<49, 8260>>>>, <<8544, <<73>>>>, <<8545, <<73, 73>>>>, <<8546, <<73, 73, 73>>>>,
    <<8547, <<73, 86>>>>, <<8548, <<86>>>>, <<8549, <<86, 73>>>>, <<8550, <<86, 73, 73>>>>,
    <<8551, <<86, 73, 73, 73>>>>, <<8552, <<73, 88>>>>, <<8553, <<88>>>>, <<8554, <<88, 73>>>>,
    <<8555, <<88, 73, 73>>>>, <<8556, <<76>>>>, <<8557, <<67>>>>, <<8558, <<68>>>>,
    <<8559, <<77>>>>, <<8560, <<105>>>>, <<8561, <<105, 105>>>>, <<8562, <<105, 105, 105>>>>,
    <<8563, <<105, 118>>>>, <<8564, <<118>>>>, <<8565, <<118, 105>>>>,
    <<8566, <<118, 105, 105>>>>, <<8567, <<118, 105, 105, 105>>>>, <<8568, <<105, 120>>>>,
    <<8569, <<120>>>>, <<8570, <<120, 105>>>>, <<8571, <<120, 105, 105>>>>, <<8572, <<108>>>>,
    <<8573, <<99>>>>, <<8574, <<100>>>>, <<8575, <<109>>>>, <<8585, <<48, 8260, 51>>>>,
    <<8602, <<8592, 824>>>>, <<8603, <<8594, 824>>>>, <<8622, <<8596, 824>>>>,
    <<8653, <<8656, 824>>>>, <<8654, <<8660, 824>>>>, <<8655, <<8658, 824>>>>,
    <<8708, <<8707, 824>>>>, <<8713, <<8712, 824>>>>, <<8716, <<8715, 824>>>>,
    <<8740, <<8739, 824>>>>, <<8742, <<8741, 824>>>>, <<8748, <<8747, 8747>>>>,
    <<8749, <<8747, 8747, 8747>>>>, <<8751, <<8750, 8750>>>>, <<8752, <<8750, 8750, 8750>>>>,
    <<8769, <<8764, 824>>>>, <<8772, <<8771, 824>>>>, <<8775, <<8773, 824>>>>,
    <<8777, <<8776, 824>>>>, <<8800, <<61, 824>>>>, <<8802, <<8801, 824>>>>,
    <<8813, <<8781, 824>>>>, <<8814, <<60, 824>>>>, <<8815, <<62, 824>>>>,
    <<8816, <<8804, 824>>>>, <<8817, <<8805, 824>>>>, <<8820, <<8818, 824>>>>,
    <<8821, <<8819, 824>>>>, <<8824, <<8822, 824>>>>, <<8825, <<8823, 824>>>>,
    <<8832, <<8826, 824>>>>, <<8833, <<8827, 824>>>>, <<8836, <<8834, 824>>>>,
    <<8837, <<8835, 824>>>>, <<8840, <<8838, 824>>>>, <<8841, <<8839, 824>>>>,
    <<8876, <<8866, 824>>>>, <<8877, <<8872, 824>>>>, <<8878, <<8873, 824>>>>,
    <<8879, <<8875, 824>>>>, <<8928, <<8828, 824>>>>, <<8929, <<8829, 824>>>>,
    <<8930, <<8849, 824>>>>, <<8931, <<8850, 824>>>>, <<8938, <<8882, 824>>>>,
    <<8939, <<8883, 824>>>>, <<8940, <<8884, 824>>>>, <<8941, <<8885, 824>>>>,
    <<9001, <<12296>>>>, <<9002, <<12297>>>>, <<9312, <<49>>>>, <<9313, <<50>>>>,
    <<9314, <<51>>>>, <<9315, <<52>>>>, <<9316, <<53>>>>, <<9317, <<54>>>>, <<9318, <<55>>>>,
    <<9319, <<56>>>>, <<9320, <<57>>>>, <<9321, <<49, 48>>>>, <<9322, <<49, 49>>>>,
    <<9323, <<49, 50>>>>, <<9324, <<49, 51>>>>, <<9325, <<49, 52>>>>, <<9326, <<49, 53>>>>,
    <<9327, <<49, 54>>>>, <<9328, <<49, 55>>>>, <<9329, <<49, 56>>>>, <<9330, <<49, 57>>>>,
    <<9331, <<50, 48>>>>, <<9332, <<40, 49, 41>>>>, <<9333, <<40, 50, 41>>>>,
    <<9334, <<40, 51, 41>>>>, <<9335, <<40, 52, 41>>>>, <<9336, <<40, 53, 41>>>>,
    <<9337, <<40, 54, 41>>>>, <<9338, <<40, 55, 41>>>>, <<9339, <<40, 56, 41>>>>,
    <<9340, <<40, 57, 41>>>>, <<9341, <<40, 49, 48, 41>>>>, <<9342, <<40, 49, 49, 41>>>>,
    <<9343, <<40, 49, 50, 41>>>>, <<9344, <<40, 49, 51, 41>>>>, <<9345, <<40, 49, 52, 41>>>>,
    <<9346, <<40, 49, 53, 41>>>>, <<9347, <<40, 49, 54, 41>>>>, <<9348, <<40, 49, 55, 41>>>>,
    <<9349, <<40, 49, 56, 41>>>>, <<9350, <<40, 49, 57, 41>>>>, <<9351, <<40, 50, 48, 41>>>>,
    <<9352, <<49, 46>>>>, <<9353, <<50, 46>>>>, <<9354, <<51, 46>>>>, <<9355, <<52, 46>>>>,
    <<9356, <<53, 46>>>>, <<9357, <<54, 46>>>>, <<9358, <<55, 46>>>>, <<9359, <<56, 46>>>>,
    <<9360, <<57, 46>>>>, <<9361, <<49, 48, 46>>>>, <<9362, <<49, 49, 46>>>>,
    <<9363, <<49, 50, 46>>>>, <<9364, <<49, 51, 46>>>>, <<9365, <<49, 52, 46>>>>,
    <<9366, <<49, 53, 46>>>>, <<9367, <<49, 54, 46>>>>, <<9368, <<49, 55, 46>>>>,
    <<9369, <<49, 56, 46>>>>, <<9370, <<49, 57, 46>>>>, <<9371, <<50, 48, 46>>>>,
    <<9372, <<40, 97, 41>>>>, <<9373, <<40, 98, 41>>>>, <<9374, <<40, 99, 41>>>>,
    <<9375, <<40, 100, 41>>>>, <<9376, <<40, 101, 41>>>>, <<9377, <<40, 102, 41>>>>,
    <<9378, <<40, 103, 41>>>>, <<9379, <<40, 104, 41>>>>, <<9380, <<40, 105, 41>>>>,
    <<9381, <<40, 106, 41>>>>, <<9382, <<40, 107, 41>>>>, <<9383, <<40, 108, 41>>>>,
    <<9384, <<40, 109, 41>>>>, <<9385, <<40, 110, 41>>>>, <<9386, <<40, 111, 41>>>>,
    <<9387, <<40, 112, 41>>>>, <<9388, <<40, 113, 41>>>>, <<9389, <<40, 114, 41>>>>,
    <<9390, <<40, 115, 41>>>>, <<9391, <<40, 116, 41>>>>, <<9392, <<40, 117, 41>>>>,
    <<9393, <<40, 118, 41>>>>, <<9394, <<40, 119, 41>>>>, <<9395, <<40, 120, 41>>>>,
    <<9396, <<40, 121, 41>>>>, <<9397, <<40, 122, 41>>>>, <<9398, <<65>>>>, <<9399, <<66>>>>,
    <<9400, <<67>>>>, <<9401, <<68>>>>, <<9402, <<69>>>>, <<9403, <<70>>>>, <<9404, <<71>>>>,
    <<9405, <<72>>>>, <<9406, <<73>>>>, <<9407, <<74>>>>, <<9408, <<75>>>>, <<9409, <<76>>>>,
    <<9410, <<77>>>>, <<9411, <<78>>>>, <<9412, <<79>>>>, <<9413, <<80>>>>, <<9414, <<81>>>>,
    <<9415, <<82>>>>, <<9416, <<83>>>>, <<9417, <<84>>>>, <<9418, <<85>>>>, <<9419, <<86>>>>,
    <<9420, <<87>>>>, <<9421, <<88>>>>, <<9422, <<89>>>>, <<9423, <<90>>>>, <<9424, <<97>>>>,
    <<9425, <<98>>>>, <<9426, <<99>>>>, <<9427, <<100>>>>, <<9428, <<101>>>>,
    <<9429, <<102>>>>, <<9430, <<103>>>>, <<9431, <<104>>>>, <<9432, <<105>>>>,
    <<9433, <<106>>>>, <<9434, <<107>>>>, <<9435, <<108>>>>, <<9436, <<109>>>>,
    <<9437, <<110>>>>, <<9438, <<111>>>>, <<9439, <<112>>>>, <<9440, <<113>>>>,
    <<9441, <<114>>>>, <<9442, <<115>>>>, <<9443, <<116>>>>, <<9444, <<117>>>>,
    <<9445, <<118>>>>, <<9446, <<119>>>>, <<9447, <<120>>>>, <<9448, <<121>>>>,
    <<9449, <<122>>>>, <<9450, <<48>>>>, <<10764, <<8747, 8747, 8747, 8747>>>>,
    <<10868, <<58, 58, 61>>>>, <<10869, <<61, 61>>>>, <<10870, <<61, 61, 61>>>>,
    <<10972, <<10973, 824>>>>, <<11388, <<106>>>>, <<11389, <<86>>>>, <<11631, <<11617>>>>,
    <<11935, <<27597>>>>, <<12019, <<40863>>>>, <<12032, <<19968>>>>, <<12033, <<20008>>>>,
    <<12034, <<20022>>>>, <<12035, <<20031>>>>, <<12036, <<20057>>>>, <<12037, <<20101>>>>,
    <<12038, <<20108>>>>, <<12039, <<20128>>>>, <<12040, <<20154>>>>, <<12041, <<20799>>>>,
    <<12042, <<20837>>>>, <<12043, <<20843>>>>, <<12044, <<20866>>>>, <<12045, <<20886>>>>,
    <<12046, <<20907>>>>, <<12047, <<20960>>>>, <<12048, <<20981>>>>, <<12049, <<20992>>>>,
    <<12050, <<21147>>>>, <<12051, <<21241>>>>, <<12052, <<21269>>>>, <<12053, <<21274>>>>,
    <<12054, <<21304>>>>, <<12055, <<21313>>>>, <<12056, <<21340>>>>, <<12057, <<21353>>>>,
    <<12058, <<21378>>>>, <<12059, <<21430>>>>, <<12060, <<21448>>>>, <<12061, <<21475>>>>,
    <<12062, <<22231>>>>, <<12063, <<22303>>>>, <<12064, <<22763>>>>, <<12065, <<22786>>>>,
    <<12066, <<22794>>>>, <<12067, <<22805>>>>, <<12068, <<22823>>>>, <<12069, <<22899>>>>,
    <<12070, <<23376>>>>, <<12071, <<23424>>>>, <<12072, <<23544>>>>, <<12073, <<23567>>>>,
    <<12074, <<23586>>>>, <<12075, <<23608>>>>, <<12076, <<23662>>>>, <<12077, <<23665>>>>,
    <<12078, <<24027>>>>, <<12079, <<24037>>>>, <<12080, <<24049>>>>, <<12081, <<24062>>>>,
    <<12082, <<24178>>>>, <<12083, <<24186>>>>, <<12084, <<24191>>>>, <<12085, <<24308>>>>,
    <<12086, <<24318>>>>, <<12087, <<24331>>>>, <<12088, <<24339>>>>, <<12089, <<24400>>>>,
    <<12090, <<24417>>>>, <<12091, <<24435>>>>, <<12092, <<24515>>>>, <<12093, <<25096>>>>,
    <<12094, <<25142>>>>, <<12095, <<25163>>>>, <<12096, <<25903>>>>, <<12097, <<25908>>>>,
    <<12098, <<25991>>>>, <<12099, <<26007>>>>, <<12100, <<26020>>>>, <<12101, <<26041>>>>,
    <<12102, <<26080>>>>, <<12103, <<26085>>>>, <<12104, <<26352>>>>, <<12105, <<26376>>>>,
    <<12106, <<26408>>>>, <<12107, <<27424>>>>, <<12108, <<27490>>>>, <<12109, <<27513>>>>,
    <<12110, <<27571>>>>, <<12111, <<27595>>>>, <<12112, <<27604>>>>, <<12113, <<27611>>>>,
    <<12114, <<27663>>>>, <<12115, <<27668>>>>, <<12116, <<27700>>>>, <<12117, <<28779>>>>,
    <<12118, <<29226>>>>, <<12119, <<29238>>>>, <<12120, <<29243>>>>, <<12121, <<29247>>>>,
    <<12122, <<29255>>>>, <<12123, <<29273>>>>, <<12124, <<29275>>>>, <<12125, <<29356>>>>,
    <<12126, <<29572>>>>, <<12127, <<29577>>>>, <<12128, <<29916>>>>, <<12129, <<29926>>>>,
    <<12130, <<29976>>>>, <<12131, <<29983>>>>, <<12132, <<29992>>>>, <<12133, <<30000>>>>,
    <<12134, <<30091>>>>, <<12135, <<30098>>>>, <<12136, <<30326>>>>, <<12137, <<30333>>>>,
    <<12138, <<30382>>>>, <<12139, <<30399>>>>, <<12140, <<30446>>>>, <<12141, <<30683>>>>,
    <<12142, <<30690>>>>, <<12143, <<30707>>>>, <<12144, <<31034>>>>, <<12145, <<31160>>>>,
    <<12146, <<31166>>>>, <<12147, <<31348>>>>, <<12148, <<31435>>>>, <<12149, <<31481>>>>,
    <<12150, <<31859>>>>, <<12151, <<31992>>>>, <<12152, <<32566>>>>, <<12153, <<32593>>>>,
    <<12154, <<32650>>>>, <<12155, <<32701>>>>, <<12156, <<32769>>>>, <<12157, <<32780>>>>,
    <<12158, <<32786>>>>, <<12159, <<32819>>>>, <<12160, <<32895>>>>, <<12161, <<32905>>>>,
    <<12162, <<33251>>>>, <<12163, <<33258>>>>, <<12164, <<33267>>>>, <<12165, <<33276>>>>,
    <<12166, <<33292>>>>, <<12167, <<33307>>>>, <<12168, <<33311>>>>, <<12169, <<33390>>>>,
    <<12170, <<33394>>>>, <<12171, <<33400>>>>, <<12172, <<34381>>>>, <<12173, <<34411>>>>,
    <<12174, <<34880>>>>, <<12175, <<34892>>>>, <<12176, <<34915>>>>, <<12177, <<35198>>>>,
    <<12178, <<35211>>>>, <<12179, <<35282>>>>, <<12180, <<35328>>>>, <<12181, <<35895>>>>,
    <<12182, <<35910>>>>, <<12183, <<35925>>>>, <<12184, <<35960>>>>, <<12185, <<35997>>>>,
    <<12186, <<36196>>>>, <<12187, <<36208>>>>, <<12188, <<36275>>>>, <<12189, <<36523>>>>,
    <<12190, <<36554>>>>, <<12191, <<36763>>>>, <<12192, <<36784>>>>, <<12193, <<36789>>>>,
    <<12194, <<37009>>>>, <<12195, <<37193>>>>, <<12196, <<37318>>>>, <<12197, <<37324>>>>,
    <<12198, <<37329>>>>, <<12199, <<38263>>>>, <<12200, <<38272>>>>, <<12201, <<38428>>>>,
    <<12202, <<38582>>>>, <<12203, <<38585>>>>, <<12204, <<38632>>>>, <<12205, <<38737>>>>,
    <<12206, <<38750>>>>, <<12207, <<38754>>>>, <<12208, <<38761>>>>, <<12209, <<38859>>>>,
    <<12210, <<38893>>>>, <<12211, <<38899>>>>, <<12212, <<38913>>>>, <<12213, <<39080>>>>,
    <<12214, <<39131>>>>, <<12215, <<39135>>>>, <<12216, <<39318>>>>, <<12217, <<39321>>>>,
    <<12218, <<39340>>>>, <<12219, <<39592>>>>, <<12220, <<39640>>>>, <<12221, <<39647>>>>,
    <<12222, <<39717>>>>, <<12223, <<39727>>>>, <<12224, <<39730>>>>, <<12225, <<39740>>>>,
    <<12226, <<39770>>>>, <<12227, <<40165>>>>, <<12228, <<40565>>>>, <<12229, <<40575>>>>,
    <<12230, <<40613>>>>, <<12231, <<40635>>>>, <<12232, <<40643>>>>, <<12233, <<40653>>>>,
    <<12234, <<40657>>>>, <<12235, <<40697>>>>, <<12236, <<40701>>>>, <<12237, <<40718>>>>,
    <<12238, <<40723>>>>, <<12239, <<40736>>>>, <<12240, <<40763>>>>, <<12241, <<40778>>>>,
    <<12242, <<40786>>>>, <<12243, <<40845>>>>, <<12244, <<40860>>>>, <<12245, <<40864>>>>,
    <<12288, <<32>>>>, <<12342, <<12306>>>>, <<12344, <<21313>>>>, <<12345, <<21316>>>>,
    <<12346, <<21317>>>>, <<12364, <<12363, 12441>>>>, <<12366, <<12365, 12441>>>>,
    <<12368, <<12367, 12441>>>>, <<12370, <<12369, 12441>>>>, <<12372, <<12371, 12441>>>>,
    <<12374, <<12373, 12441>>>>, <<12376, <<12375, 12441>>>>, <<12378, <<12377, 12441>>>>,
    <<12380, <<12379, 12441>>>>, <<12382, <<12381, 12441>>>>, <<12384, <<12383, 12441>>>>,
    <<12386, <<12385, 12441>>>>, <<12389, <<12388, 12441>>>>, <<12391, <<12390, 12441>>>>,
    <<12393, <<12392, 12441>>>>, <<12400, <<12399, 12441>>>>, <<12401, <<12399, 12442>>>>,
    <<12403, <<12402, 12441>>>>, <<12404, <<12402, 12442>>>>, <<12406, <<12405, 12441>>>>,
    <<12407, <<12405, 12442>>>>, <<12409, <<12408, 12441>>>>, <<12410, <<12408, 12442>>>>,
    <<12412, <<12411, 12441>>>>, <<12413, <<12411, 12442>>>>, <<12436, <<12358, 12441>>>>,
    <<12443, <<32, 12441>>>>, <<12444, <<32, 12442>>>>, <<12446, <<12445, 12441>>>>,
    <<12447, <<12424, 12426>>>>, <<12460, <<12459, 12441>>>>, <<12462, <<12461, 12441>>>>,
    <<12464, <<12463, 12441>>>>, <<12466, <<12465, 12441>>>>, <<12468, <<12467, 12441>>>>,
    <<12470, <<12469, 12441>>>>, <<12472, <<12471, 12441>>>>, <<12474, <<12473, 12441>>>>,
    <<12476, <<12475, 12441>>>>, <<12478, <<12477, 12441>>>>, <<12480, <<12479, 12441>>>>,
    <<12482, <<12481, 12441>>>>, <<12485, <<12484, 12441>>>>, <<12487, <<12486, 12441>>>>,
    <<12489, <<12488, 12441>>>>, <<12496, <<12495, 12441>>>>, <<12497, <<12495, 12442>>>>,
    <<12499, <<12498, 12441>>>>, <<12500, <<12498, 12442>>>>, <<12502, <<12501, 12441>>>>,
    <<12503, <<12501, 12442>>>>, <<12505, <<12504, 12441>>>>, <<12506, <<12504, 12442>>>>,
    <<12508, <<12507, 12441>>>>, <<12509, <<12507, 12442>>>>, <<12532, <<12454, 12441>>>>,
    <<12535, <<12527, 12441>>>>, <<12536, <<12528, 12441>>>>, <<12537, <<12529, 12441>>>>,
    <<12538, <<12530, 12441>>>>, <<12542, <<12541, 12441>>>>, <<12543, <<12467, 12488>>>>,
    <<12593, <<4352>>>>, <<12594, <<4353>>>>, <<12595, <<4522>>>>, <<12596, <<4354>>>>,
    <<12597, <<4524>>>>, <<12598, <<4525>>>>, <<12599, <<4355>>>>, <<12600, <<4356>>>>,
    <<12601, <<4357>>>>, <<12602, <<4528>>>>, <<12603, <<4529>>>>, <<12604, <<4530>>>>,
    <<12605, <<4531>>>>, <<12606, <<4532>>>>, <<12607, <<4533>>>>, <<12608, <<4378>>>>,
    <<12609, <<4358>>>>, <<12610, <<4359>>>>, <<12611, <<4360>>>>, <<12612, <<4385>>>>,
    <<12613, <<4361>>>>, <<12614, <<4362>>>>, <<12615, <<4363>>>>, <<12616, <<4364>>>>,
    <<12617, <<4365>>>>, <<12618, <<4366>>>>, <<12619, <<4367>>>>, <<12620, <<4368>>>>,
    <<12621, <<4369>>>>, <<12622, <<4370>>>>, <<12623, <<4449>>>>, <<12624, <<4450>>>>,
    <<12625, <<4451>>>>, <<12626, <<4452>>>>, <<12627, <<4453>>>>, <<12628, <<4454>>>>,
    <<12629, <<4455>>>>, <<12630, <<4456>>>>, <<12631, <<4457>>>>, <<12632, <<4458>>>>,
    <<12633, <<4459>>>>, <<12634, <<4460>>>>, <<12635, <<4461>>>>, <<12636, <<4462>>>>,
    <<12637, <<4463>>>>, <<12638, <<4464>>>>, <<12639, <<4465>>>>, <<12640, <<4466>>>>,
    <<12641, <<4467>>>>, <<12642, <<4468>>>>, <<12643, <<4469>>>>, <<12644, <<4448>>>>,
    <<12645, <<4372>>>>, <<12646, <<4373>>>>, <<12647, <<4551>>>>, <<12648, <<4552>>>>,
    <<12649, <<4556>>>>, <<12650, <<4558>>>>, <<12651, <<4563>>>>, <<12652, <<4567>>>>,
    <<12653, <<4569>>>>, <<12654, <<4380>>>>, <<12655, <<4573>>>>, <<12656, <<4575>>>>,
    <<12657, <<4381>>>>, <<12658, <<4382>>>>, <<12659, <<4384>>>>, <<12660, <<4386>>>>,
    <<12661, <<4387>>>>, <<12662, <<4391>>>>, <<12663, <<4393>>>>, <<12664, <<4395>>>>,
    <<12665, <<4396>>>>, <<12666, <<4397>>>>, <<12667, <<4398>>>>, <<12668, <<4399>>>>,
    <<12669, <<4402>>>>, <<12670, <<4406>>>>, <<12671, <<4416>>>>, <<12672, <<4423>>>>,
    <<12673, <<4428>>>>, <<12674, <<4593>>>>, <<12675, <<4594>>>>, <<12676, <<4439>>>>,
    <<12677, <<4440>>>>, <<12678, <<4441>>>>, <<12679, <<4484>>>>, <<12680, <<4485>>>>,
    <<12681, <<4488>>>>, <<12682, <<4497>>>>, <<12683, <<4498>>>>, <<12684, <<4500>>>>,
    <<12685, <<4510>>>>, <<12686, <<4513>>>>, <<12690, <<19968>>>>, <<12691, <<20108>>>>,
    <<12692, <<19977>>>>, <<12693, <<22235>>>>, <<12694, <<19978>>>>, <<12695, <<20013>>>>,
    <<12696, <<19979>>>>, <<12697, <<30002>>>>, <<12698, <<20057>>>>, <<12699, <<19993>>>>,
    <<12700, <<19969>>>>, <<12701, <<22825>>>>, <<12702, <<22320>>>>, <<12703, <<20154>>>>,
    <<12800, <<40, 4352, 41>>>>, <<12801, <<40, 4354, 41>>>>, <<12802, <<40, 4355, 41>>>>,
    <<12803, <<40, 4357, 41>>>>, <<12804, <<40, 4358, 41>>>>, <<12805, <<40, 4359, 41>>>>,
    <<12806, <<40, 4361, 41>>>>, <<12807, <<40, 4363, 41>>>>, <<12808, <<40, 4364, 41>>>>,
    <<12809, <<40, 4366, 41>>>>, <<12810, <<40, 4367, 41>>>>, <<12811, <<40, 4368, 41>>>>,
    <<12812, <<40, 4369, 41>>>>, <<12813, <<40, 4370, 41>>>>,
    <<12814, <<40, 4352, 4449, 41>>>>, <<12815, <<40, 4354, 4449, 41>>>>,
    <<12816, <<40, 4355, 4449, 41>>>>, <<12817, <<40, 4357, 4449, 41>>>>,
    <<12818, <<40, 4358, 4449, 41>>>>, <<12819, <<40, 4359, 4449, 41>>>>,
    <<12820, <<40, 4361, 4449, 41>>>>, <<12821, <<40, 4363, 4449, 41>>>>,
    <<12822, <<40, 4364, 4449, 41>>>>, <<12823, <<40, 4366, 4449, 41>>>>,
    <<12824, <<40, 4367, 4449, 41>>>>, <<12825, <<40, 4368, 4449, 41>>>>,
    <<12826, <<40, 4369, 4449, 41>>>>, <<12827, <<40, 4370, 4449, 41>>>>,
    <<12828, <<40, 4364, 4462, 41>>>>, <<12829, <<40, 4363, 4457, 4364, 4453, 4523, 41>>>>,
    <<12830, <<40, 4363, 4457, 4370, 4462, 41>>>>, <<12832, <<40, 19968, 41>>>>,
    <<12833, <<40, 20108, 41>>>>, <<12834, <<40, 19977, 41>>>>, <<12835, <<40, 22235, 41>>>>,
    <<12836, <<40, 20116, 41>>>>, <<12837, <<40, 20845, 41>>>>, <<12838, <<40, 19971, 41>>>>,
    <<12839, <<40, 20843, 41>>>>, <<12840, <<40, 20061, 41>>>>, <<12841, <<40, 21313, 41>>>>,
    <<12842, <<40, 26376, 41>>>>, <<12843, <<40, 28779, 41>>>>, <<12844, <<40, 27700, 41>>>>,
    <<12845, <<40, 26408, 41>>>>, <<12846, <<40, 37329, 41>>>>, <<12847, <<40, 22303, 41>>>>,
    <<12848, <<40, 26085, 41>>>>, <<12849, <<40, 26666, 41>>>>, <<12850, <<40, 26377, 41>>>>,
    <<12851, <<40, 31038, 41>>>>, <<12852, <<40, 21517, 41>>>>, <<12853, <<40, 29305, 41>>>>,
    <<12854, <<40, 36001, 41>>>>, <<12855, <<40, 31069, 41>>>>, <<12856, <<40, 21172, 41>>>>,
    <<12857, <<40, 20195, 41>>>>, <<12858, <<40, 21628, 41>>>>, <<12859, <<40, 23398, 41>>>>,
    <<12860, <<40, 30435, 41>>>>, <<12861, <<40, 20225, 41>>>>, <<12862, <<40, 36039, 41>>>>,
    <<12863, <<40, 21332, 41>>>>, <<12864, <<40, 31085, 41>>>>, <<12865, <<40, 20241, 41>>>>,
    <<12866, <<40, 33258, 41>>>>, <<12867, <<40, 33267, 41>>>>, <<12868, <<21839>>>>,
    <<12869, <<24188>>>>, <<12870, <<25991>>>>, <<12871, <<31631>>>>,
    <<12880, <<80, 84, 69>>>>, <<12881, <<50, 49>>>>, <<12882, <<50, 50>>>>,
    <<12883, <<50, 51>>>>, <<12884, <<50, 52>>>>, <<12885, <<50, 53>>>>, <<12886, <<50, 54>>>>,
    <<12887, <<50, 55>>>>, <<12888, <<50, 56>>>>, <<12889, <<50, 57>>>>, <<12890, <<51, 48>>>>,
    <<12891, <<51, 49>>>>, <<12892, <<51, 50>>>>, <<12893, <<51, 51>>>>, <<12894, <<51, 52>>>>,
    <<12895, <<51, 53>>>>, <<12896, <<4352>>>>, <<12897, <<4354>>>>, <<12898, <<4355>>>>,
    <<12899, <<4357>>>>, <<12900, <<4358>>>>, <<12901, <<4359>>>>, <<12902, <<4361>>>>,
    <<12903, <<4363>>>>, <<12904, <<4364>>>>, <<12905, <<4366>>>>, <<12906, <<4367>>>>,
    <<12907, <<4368>>>>, <<12908, <<4369>>>>, <<12909, <<4370>>>>, <<12910, <<4352, 4449>>>>,
    <<12911, <<4354, 4449>>>>, <<12912, <<4355, 4449>>>>, <<12913, <<4357, 4449>>>>,
    <<12914, <<4358, 4449>>>>, <<12915, <<4359, 4449>>>>, <<12916, <<4361, 4449>>>>,
    <<12917, <<4363, 4449>>>>, <<12918, <<4364, 4449>>>>, <<12919, <<4366, 4449>>>>,
    <<12920, <<4367, 4449>>>>, <<12921, <<4368, 4449>>>>, <<12922, <<4369, 4449>>>>,
    <<12923, <<4370, 4449>>>>, <<12924, <<4366, 4449, 4535, 4352, 4457>>>>,
    <<12925, <<4364, 4462, 4363, 4468>>>>, <<12926, <<4363, 4462>>>>, <<12928, <<19968>>>>,
    <<12929, <<20108>>>>, <<12930, <<19977>>>>, <<12931, <<22235>>>>, <<12932, <<20116>>>>,
    <<12933, <<20845>>>>, <<12934, <<19971>>>>, <<12935, <<20843>>>>, <<12936, <<20061>>>>,
    <<12937, <<21313>>>>, <<12938, <<26376>>>>, <<12939, <<28779>>>>, <<12940, <<27700>>>>,
    <<12941, <<26408>>>>, <<12942, <<37329>>>>, <<12943, <<22303>>>>, <<12944, <<26085>>>>,
    <<12945, <<26666>>>>, <<12946, <<26377>>>>, <<12947, <<31038>>>>, <<12948, <<21517>>>>,
    <<12949, <<29305>>>>, <<12950, <<36001>>>>, <<12951, <<31069>>>>, <<12952, <<21172>>>>,
    <<12953, <<31192>>>>, <<12954, <<30007>>>>, <<12955, <<22899>>>>, <<12956, <<36969>>>>,
    <<12957, <<20778>>>>, <<12958, <<21360>>>>, <<12959, <<27880>>>>, <<12960, <<38917>>>>,
    <<12961, <<20241>>>>, <<12962, <<20889>>>>, <<12963, <<27491>>>>, <<12964, <<19978>>>>,
    <<12965, <<20013>>>>, <<12966, <<19979>>>>, <<12967, <<24038>>>>, <<12968, <<21491>>>>,
    <<12969, <<21307>>>>, <<12970, <<23447>>>>, <<12971, <<23398>>>>, <<12972, <<30435>>>>,
    <<12973, <<20225>>>>, <<12974, <<36039>>>>, <<12975, <<21332>>>>, <<12976, <<22812>>>>,
    <<12977, <<51, 54>>>>, <<12978, <<51, 55>>>>, <<12979, <<51, 56>>>>, <<12980, <<51, 57>>>>,
    <<12981, <<52, 48>>>>, <<12982, <<52, 49>>>>, <<12983, <<52, 50>>>>, <<12984, <<52, 51>>>>,
    <<12985, <<52, 52>>>>, <<12986, <<52, 53>>>>, <<12987, <<52, 54>>>>, <<12988, <<52, 55>>>>,
    <<12989, <<52, 56>>>>, <<12990, <<52, 57>>>>, <<12991, <<53, 48>>>>,
    <<12992, <<49, 26376>>>>, <<12993, <<50, 26376>>>>, <<12994, <<51, 26376>>>>,
    <<12995, <<52, 26376>>>>, <<12996, <<53, 26376>>>>, <<12997, <<54, 26376>>>>,
    <<12998, <<55, 26376>>>>, <<12999, <<56, 26376>>>>, <<13000, <<57, 26376>>>>,
    <<13001, <<49, 48, 26376>>>>, <<13002, <<49, 49, 26376>>>>, <<13003, <<49, 50, 26376>>>>,
    <<13004, <<72, 103>>>>, <<13005, <<101, 114, 103>>>>, <<13006, <<101, 86>>>>,
    <<13007, <<76, 84, 68>>>>, <<13008, <<12450>>>>, <<13009, <<12452>>>>,
    <<13010, <<12454>>>>, <<13011, <<12456>>>>, <<13012, <<12458>>>>, <<13013, <<12459>>>>,
    <<13014, <<12461>>>>, <<13015, <<12463>>>>, <<13016, <<12465>>>>, <<13017, <<12467>>>>,
    <<13018, <<12469>>>>, <<13019, <<12471>>>>, <<13020, <<12473>>>>, <<13021, <<12475>>>>,
    <<13022, <<12477>>>>, <<13023, <<12479>>>>, <<13024, <<12481>>>>, <<13025, <<12484>>>>,
    <<13026, <<12486>>>>, <<13027, <<12488>>>>, <<13028, <<12490>>>>, <<13029, <<12491>>>>,
    <<13030, <<12492>>>>, <<13031, <<12493>>>>, <<13032, <<12494>>>>, <<13033, <<12495>>>>,
    <<13034, <<12498>>>>, <<13035, <<12501>>>>, <<13036, <<12504>>>>, <<13037, <<12507>>>>,
    <<13038, <<12510>>>>, <<13039, <<12511>>>>, <<13040, <<12512>>>>, <<13041, <<12513>>>>,
    <<13042, <<12514>>>>, <<13043, <<12516>>>>, <<13044, <<12518>>>>, <<13045, <<12520>>>>,
    <<13046, <<12521>>>>, <<13047, <<12522>>>>, <<13048, <<12523>>>>, <<13049, <<12524>>>>,
    <<13050, <<12525>>>>, <<13051, <<12527>>>>, <<13052, <<12528>>>>, <<13053, <<12529>>>>,
    <<13054, <<12530>>>>, <<13055, <<20196, 21644>>>>,
    <<13056, <<12450, 12495, 12442, 12540, 12488>>>>,
    <<13057, <<12450, 12523, 12501, 12449>>>>,
    <<13058, <<12450, 12531, 12504, 12442, 12450>>>>, <<13059, <<12450, 12540, 12523>>>>,
    <<13060, <<12452, 12491, 12531, 12463, 12441>>>>, <<13061, <<12452, 12531, 12481>>>>,
    <<13062, <<12454, 12457, 12531>>>>,
    <<13063, <<12456, 12473, 12463, 12540, 12488, 12441>>>>,
    <<13064, <<12456, 12540, 12459, 12540>>>>, <<13065, <<12458, 12531, 12473>>>>,
    <<13066, <<12458, 12540, 12512>>>>, <<13067, <<12459, 12452, 12522>>>>,
    <<13068, <<12459, 12521, 12483, 12488>>>>, <<13069, <<12459, 12525, 12522, 12540>>>>,
    <<13070, <<12459, 12441, 12525, 12531>>>>, <<13071, <<12459, 12441, 12531, 12510>>>>,
    <<13072, <<12461, 12441, 12459, 12441>>>>, <<13073, <<12461, 12441, 12491, 12540>>>>,
    <<13074, <<12461, 12517, 12522, 12540>>>>,
    <<13075, <<12461, 12441, 12523, 12479, 12441, 12540>>>>, <<13076, <<12461, 12525>>>>,
    <<13077, <<12461, 12525, 12463, 12441, 12521, 12512>>>>,
    <<13078, <<12461, 12525, 12513, 12540, 12488, 12523>>>>,
    <<13079, <<12461, 12525, 12527, 12483, 12488>>>>,
    <<13080, <<12463, 12441, 12521, 12512>>>>,
    <<13081, <<12463, 12441, 12521, 12512, 12488, 12531>>>>,
    <<13082, <<12463, 12523, 12475, 12441, 12452, 12525>>>>,
    <<13083, <<12463, 12525, 12540, 12493>>>>, <<13084, <<12465, 12540, 12473>>>>,
    <<13085, <<12467, 12523, 12490>>>>, <<13086, <<12467, 12540, 12507, 12442>>>>,
    <<13087, <<12469, 12452, 12463, 12523>>>>,
    <<13088, <<12469, 12531, 12481, 12540, 12512>>>>,
    <<13089, <<12471, 12522, 12531, 12463, 12441>>>>, <<13090, <<12475, 12531, 12481>>>>,
    <<13091, <<12475, 12531, 12488>>>>, <<13092, <<12479, 12441, 12540, 12473>>>>,
    <<13093, <<12486, 12441, 12471>>>>, <<13094, <<12488, 12441, 12523>>>>,
    <<13095, <<12488, 12531>>>>, <<13096, <<12490, 12494>>>>,
    <<13097, <<12494, 12483, 12488>>>>, <<13098, <<12495, 12452, 12484>>>>,
    <<13099, <<12495, 12442, 12540, 12475, 12531, 12488>>>>,
    <<13100, <<12495, 12442, 12540, 12484>>>>,
    <<13101, <<12495, 12441, 12540, 12524, 12523>>>>,
    <<13102, <<12498, 12442, 12450, 12473, 12488, 12523>>>>,
    <<13103, <<12498, 12442, 12463, 12523>>>>, <<13104, <<12498, 12442, 12467>>>>,
    <<13105, <<12498, 12441, 12523>>>>,
    <<13106, <<12501, 12449, 12521, 12483, 12488, 12441>>>>,
    <<13107, <<12501, 12451, 12540, 12488>>>>,
    <<13108, <<12501, 12441, 12483, 12471, 12455, 12523>>>>,
    <<13109, <<12501, 12521, 12531>>>>, <<13110, <<12504, 12463, 12479, 12540, 12523>>>>,
    <<13111, <<12504, 12442, 12477>>>>, <<13112, <<12504, 12442, 12491, 12498>>>>,
    <<13113, <<12504, 12523, 12484>>>>, <<13114, <<12504, 12442, 12531, 12473>>>>,
    <<13115, <<12504, 12442, 12540, 12471, 12441>>>>,
    <<13116, <<12504, 12441, 12540, 12479>>>>,
    <<13117, <<12507, 12442, 12452, 12531, 12488>>>>,
    <<13118, <<12507, 12441, 12523, 12488>>>>, <<13119, <<12507, 12531>>>>,
    <<13120, <<12507, 12442, 12531, 12488, 12441>>>>, <<13121, <<12507, 12540, 12523>>>>,
    <<13122, <<12507, 12540, 12531>>>>, <<13123, <<12510, 12452, 12463, 12525>>>>,
    <<13124, <<12510, 12452, 12523>>>>, <<13125, <<12510, 12483, 12495>>>>,
    <<13126, <<12510, 12523, 12463>>>>, <<13127, <<12510, 12531, 12471, 12519, 12531>>>>,
    <<13128, <<12511, 12463, 12525, 12531>>>>, <<13129, <<12511, 12522>>>>,
    <<13130, <<12511, 12522, 12495, 12441, 12540, 12523>>>>,
    <<13131, <<12513, 12459, 12441>>>>, <<13132, <<12513, 12459, 12441, 12488, 12531>>>>,
    <<13133, <<12513, 12540, 12488, 12523>>>>, <<13134, <<12516, 12540, 12488, 12441>>>>,
    <<13135, <<12516, 12540, 12523>>>>, <<13136, <<12518, 12450, 12531>>>>,
    <<13137, <<12522, 12483, 12488, 12523>>>>, <<13138, <<12522, 12521>>>>,
    <<13139, <<12523, 12498, 12442, 12540>>>>,
    <<13140, <<12523, 12540, 12501, 12441, 12523>>>>, <<13141, <<12524, 12512>>>>,
    <<13142, <<12524, 12531, 12488, 12465, 12441, 12531>>>>,
    <<13143, <<12527, 12483, 12488>>>>, <<13144, <<48, 28857>>>>, <<13145, <<49, 28857>>>>,
    <<13146, <<50, 28857>>>>, <<13147, <<51, 28857>>>>, <<13148, <<52, 28857>>>>,
    <<13149, <<53, 28857>>>>, <<13150, <<54, 28857>>>>, <<13151, <<55, 28857>>>>,
    <<13152, <<56, 28857>>>>, <<13153, <<57, 28857>>>>, <<13154, <<49, 48, 28857>>>>,
    <<13155, <<49, 49, 28857>>>>, <<13156, <<49, 50, 28857>>>>, <<13157, <<49, 51, 28857>>>>,
    <<13158, <<49, 52, 28857>>>>, <<13159, <<49, 53, 28857>>>>, <<13160, <<49, 54, 28857>>>>,
    <<13161, <<49, 55, 28857>>>>, <<13162, <<49, 56, 28857>>>>, <<13163, <<49, 57, 28857>>>>,
    <<13164, <<50, 48, 28857>>>>, <<13165, <<50, 49, 28857>>>>, <<13166, <<50, 50, 28857>>>>,
    <<13167, <<50, 51, 28857>>>>, <<13168, <<50, 52, 28857>>>>, <<13169, <<104, 80, 97>>>>,
    <<13170, <<100, 97>>>>, <<13171, <<65, 85>>>>, <<13172, <<98, 97, 114>>>>,
    <<13173, <<111, 86>>>>, <<13174, <<112, 99>>>>, <<13175, <<100, 109>>>>,
    <<13176, <<100, 109, 50>>>>, <<13177, <<100, 109, 51>>>>, <<13178, <<73, 85>>>>,
    <<13179, <<24179, 25104>>>>, <<13180, <<26157, 21644>>>>, <<13181, <<22823, 27491>>>>,
    <<13182, <<26126, 27835>>>>, <<13183, <<26666, 24335, 20250, 31038>>>>,
    <<13184, <<112, 65>>>>, <<13185, <<110, 65>>>>, <<13186, <<956, 65>>>>,
    <<13187, <<109, 65>>>>, <<13188, <<107, 65>>>>, <<13189, <<75, 66>>>>,
    <<13190, <<77, 66>>>>, <<13191, <<71, 66>>>>, <<13192, <<99, 97, 108>>>>,
    <<13193, <<107, 99, 97, 108>>>>, <<13194, <<112, 70>>>>, <<13195, <<110, 70>>>>,
    <<13196, <<956, 70>>>>, <<13197, <<956, 103>>>>, <<13198, <<109, 103>>>>,
    <<13199, <<107, 103>>>>, <<13200, <<72, 122>>>>, <<13201, <<107, 72, 122>>>>,
    <<13202, <<77, 72, 122>>>>, <<13203, <<71, 72, 122>>>>, <<13204, <<84, 72, 122>>>>,
    <<13205, <<956, 108>>>>, <<13206, <<109, 108>>>>, <<13207, <<100, 108>>>>,
    <<13208, <<107, 108>>>>, <<13209, <<102, 109>>>>, <<13210, <<110, 109>>>>,
    <<13211, <<956, 109>>>>, <<13212, <<109, 109>>>>, <<13213, <<99, 109>>>>,
    <<13214, <<107, 109>>>>, <<13215, <<109, 109, 50>>>>, <<13216, <<99, 109, 50>>>>,
    <<13217, <<109, 50>>>>, <<13218, <<107, 109, 50>>>>, <<13219, <<109, 109, 51>>>>,
    <<13220, <<99, 109, 51>>>>, <<13221, <<109, 51>>>>, <<13222, <<107, 109, 51>>>>,
    <<13223, <<109, 8725, 115>>>>, <<13224, <<109, 8725, 115, 50>>>>, <<13225, <<80, 97>>>>,
    <<13226, <<107, 80, 97>>>>, <<13227, <<77, 80, 97>>>>, <<13228, <<71, 80, 97>>>>,
    <<13229, <<114, 97, 100>>>>, <<13230, <<114, 97, 100, 8725, 115>>>>,
    <<13231, <<114, 97, 100, 8725, 115, 50>>>>, <<13232, <<112, 115>>>>,
    <<13233, <<110, 115>>>>, <<13234, <<956, 115>>>>, <<13235, <<109, 115>>>>,
    <<13236, <<112, 86>>>>, <<13237, <<110, 86>>>>, <<13238, <<956, 86>>>>,
    <<13239, <<109, 86>>>>, <<13240, <<107, 86>>>>, <<13241, <<77, 86>>>>,
    <<13242, <<112, 87>>>>, <<13243, <<110, 87>>>>, <<13244, <<956, 87>>>>,
    <<13245, <<109, 87>>>>, <<13246, <<107, 87>>>>, <<13247, <<77, 87>>>>,
    <<13248, <<107, 937>>>>, <<13249, <<77, 937>>>>, <<13250, <<97, 46, 109, 46>>>>,
    <<13251, <<66, 113>>>>, <<13252, <<99, 99>>>>, <<13253, <<99, 100>>>>,
    <<13254, <<67, 8725, 107, 103>>>>, <<13255, <<67, 111, 46>>>>, <<13256, <<100, 66>>>>,
    <<13257, <<71, 121>>>>, <<13258, <<104, 97>>>>, <<13259, <<72, 80>>>>,
    <<13260, <<105, 110>>>>, <<13261, <<75, 75>>>>, <<13262, <<75, 77>>>>,
    <<13263, <<107, 116>>>>, <<13264, <<108, 109>>>>, <<13265, <<108, 110>>>>,
    <<13266, <<108, 111, 103>>>>, <<13267, <<108, 120>>>>, <<13268, <<109, 98>>>>,
    <<13269, <<109, 105, 108>>>>, <<13270, <<109, 111, 108>>>>, <<13271, <<80, 72>>>>,
    <<13272, <<112, 46, 109, 46>>>>, <<13273, <<80, 80, 77>>>>, <<13274, <<80, 82>>>>,
    <<13275, <<115, 114>>>>, <<13276, <<83, 118>>>>, <<13277, <<87, 98>>>>,
    <<13278, <<86, 8725, 109>>>>, <<13279, <<65, 8725, 109>>>>, <<13280, <<49, 26085>>>>,
    <<13281, <<50, 26085>>>>, <<13282, <<51, 26085>>>>, <<13283, <<52, 26085>>>>,
    <<13284, <<53, 26085>>>>, <<13285, <<54, 26085>>>>, <<13286, <<55, 26085>>>>,
    <<13287, <<56, 26085>>>>, <<13288, <<57, 26085>>>>, <<13289, <<49, 48, 26085>>>>,
    <<13290, <<49, 49, 26085>>>>, <<13291, <<49, 50, 26085>>>>, <<13292, <<49, 51, 26085>>>>,
    <<13293, <<49, 52, 26085>>>>, <<13294, <<49, 53, 26085>>>>, <<13295, <<49, 54, 26085>>>>,
    <<13296, <<49, 55, 26085>>>>, <<13297, <<49, 56, 26085>>>>, <<13298, <<49, 57, 26085>>>>,
    <<13299, <<50, 48, 26085>>>>, <<13300, <<50, 49, 26085>>>>, <<13301, <<50, 50, 26085>>>>,
    <<13302, <<50, 51, 26085>>>>, <<13303, <<50, 52, 26085>>>>, <<13304, <<50, 53, 26085>>>>,
    <<13305, <<50, 54, 26085>>>>, <<13306, <<50, 55, 26085>>>>, <<13307, <<50, 56, 26085>>>>,
    <<13308, <<50, 57, 26085>>>>, <<13309, <<51, 48, 26085>>>>, <<13310, <<51, 49, 26085>>>>,
    <<13311, <<103, 97, 108>>>>, <<42652, <<1098>>>>, <<42653, <<1100>>>>,
    <<42864, <<42863>>>>, <<42994, <<67>>>>, <<42995, <<70>>>>, <<42996, <<81>>>>,
    <<43000, <<294>>>>, <<43001, <<339>>>>, <<43868, <<42791>>>>, <<43869, <<43831>>>>,
    <<43870, <<619>>>>, <<43871, <<43858>>>>, <<43881, <<653>>>>, <<63744, <<35912>>>>,
    <<63745, <<26356>>>>, <<63746, <<36554>>>>, <<63747, <<36040>>>>, <<63748, <<28369>>>>,
    <<63749, <<20018>>>>, <<63750, <<21477>>>>, <<63751, <<40860>>>>, <<63752, <<40860>>>>,
    <<63753, <<22865>>>>, <<63754, <<37329>>>>, <<63755, <<21895>>>>, <<63756, <<22856>>>>,
    <<63757, <<25078>>>>, <<63758, <<30313>>>>, <<63759, <<32645>>>>, <<63760, <<34367>>>>,
    <<63761, <<34746>>>>, <<63762, <<35064>>>>, <<63763, <<37007>>>>, <<63764, <<27138>>>>,
    <<63765, <<27931>>>>, <<63766, <<28889>>>>, <<63767, <<29662>>>>, <<63768, <<33853>>>>,
    <<63769, <<37226>>>>, <<63770, <<39409>>>>, <<63771, <<20098>>>>, <<63772, <<21365>>>>,
    <<63773, <<27396>>>>, <<63774, <<29211>>>>, <<63775, <<34349>>>>, <<63776, <<40478>>>>,
    <<63777, <<23888>>>>, <<63778, <<28651>>>>, <<63779, <<34253>>>>, <<63780, <<35172>>>>,
    <<63781, <<25289>>>>, <<63782, <<33240>>>>, <<63783, <<34847>>>>, <<63784, <<24266>>>>,
    <<63785, <<26391>>>>, <<63786, <<28010>>>>, <<63787, <<29436>>>>, <<63788, <<37070>>>>,
    <<63789, <<20358>>>>, <<63790, <<20919>>>>, <<63791, <<21214>>>>, <<63792, <<25796>>>>,
    <<63793, <<27347>>>>, <<63794, <<29200>>>>, <<63795, <<30439>>>>, <<63796, <<32769>>>>,
    <<63797, <<34310>>>>, <<63798, <<34396>>>>, <<63799, <<36335>>>>, <<63800, <<38706>>>>,
    <<63801, <<39791>>>>, <<63802, <<40442>>>>, <<63803, <<30860>>>>, <<63804, <<31103>>>>,
    <<63805, <<32160>>>>, <<63806, <<33737>>>>, <<63807, <<37636>>>>, <<63808, <<40575>>>>,
    <<63809, <<35542>>>>, <<63810, <<22751>>>>, <<63811, <<24324>>>>, <<63812, <<31840>>>>,
    <<63813, <<32894>>>>, <<63814, <<29282>>>>, <<63815, <<30922>>>>, <<63816, <<36034>>>>,
    <<63817, <<38647>>>>, <<63818, <<22744>>>>, <<63819, <<23650>>>>, <<63820, <<27155>>>>,
    <<63821, <<28122>>>>, <<63822, <<28431>>>>, <<63823, <<32047>>>>, <<63824, <<32311>>>>,
    <<63825, <<38475>>>>, <<63826, <<21202>>>>, <<63827, <<32907>>>>, <<63828, <<20956>>>>,
    <<63829, <<20940>>>>, <<63830, <<31260>>>>, <<63831, <<32190>>>>, <<63832, <<33777>>>>,
    <<63833, <<38517>>>>, <<63834, <<35712>>>>, <<63835, <<25295>>>>, <<63836, <<27138>>>>,
    <<63837, <<35582>>>>, <<63838, <<20025>>>>, <<63839, <<23527>>>>, <<63840, <<24594>>>>,
    <<63841, <<29575>>>>, <<63842, <<30064>>>>, <<63843, <<21271>>>>, <<63844, <<30971>>>>,
    <<63845, <<20415>>>>, <<63846, <<24489>>>>, <<63847, <<19981>>>>, <<63848, <<27852>>>>,
    <<63849, <<25976>>>>, <<63850, <<32034>>>>, <<63851, <<21443>>>>, <<63852, <<22622>>>>,
    <<63853, <<30465>>>>, <<63854, <<33865>>>>, <<63855, <<35498>>>>, <<63856, <<27578>>>>,
    <<63857, <<36784>>>>, <<63858, <<27784>>>>, <<63859, <<25342>>>>, <<63860, <<33509>>>>,
    <<63861, <<25504>>>>, <<63862, <<30053>>>>, <<63863, <<20142>>>>, <<63864, <<20841>>>>,
    <<63865, <<20937>>>>, <<63866, <<26753>>>>, <<63867, <<31975>>>>, <<63868, <<33391>>>>,
    <<63869, <<35538>>>>, <<63870, <<37327>>>>, <<63871, <<21237>>>>, <<63872, <<21570>>>>,
    <<63873, <<22899>>>>, <<63874, <<24300>>>>, <<63875, <<26053>>>>, <<63876, <<28670>>>>,
    <<63877, <<31018>>>>, <<63878, <<38317>>>>, <<63879, <<39530>>>>, <<63880, <<40599>>>>,
    <<63881, <<40654>>>>, <<63882, <<21147>>>>, <<63883, <<26310>>>>, <<63884, <<27511>>>>,
    <<63885, <<36706>>>>, <<63886, <<24180>>>>, <<63887, <<24976>>>>, <<63888, <<25088>>>>,
    <<63889, <<25754>>>>, <<63890, <<28451>>>>, <<63891, <<29001>>>>, <<63892, <<29833>>>>,
    <<63893, <<31178>>>>, <<63894, <<32244>>>>, <<63895, <<32879>>>>, <<63896, <<36646>>>>,
    <<63897, <<34030>>>>, <<63898, <<36899>>>>, <<63899, <<37706>>>>, <<63900, <<21015>>>>,
    <<63901, <<21155>>>>, <<63902, <<21693>>>>, <<63903, <<28872>>>>, <<63904, <<35010>>>>,
    <<63905, <<35498>>>>, <<63906, <<24265>>>>, <<63907, <<24565>>>>, <<63908, <<25467>>>>,
    <<63909, <<27566>>>>, <<63910, <<31806>>>>, <<63911, <<29557>>>>, <<63912, <<20196>>>>,
    <<63913, <<22265>>>>, <<63914, <<23527>>>>, <<63915, <<23994>>>>, <<63916, <<24604>>>>,
    <<63917, <<29618>>>>, <<63918, <<29801>>>>, <<63919, <<32666>>>>, <<63920, <<32838>>>>,
    <<63921, <<37428>>>>, <<63922, <<38646>>>>, <<63923, <<38728>>>>, <<63924, <<38936>>>>,
    <<63925, <<20363>>>>, <<63926, <<31150>>>>, <<63927, <<37300>>>>, <<63928, <<38584>>>>,
    <<63929, <<24801>>>>, <<63930, <<20102>>>>, <<63931, <<20698>>>>, <<63932, <<23534>>>>,
    <<63933, <<23615>>>>, <<63934, <<26009>>>>, <<63935, <<27138>>>>, <<63936, <<29134>>>>,
    <<63937, <<30274>>>>, <<63938, <<34044>>>>, <<63939, <<36988>>>>, <<63940, <<40845>>>>,
    <<63941, <<26248>>>>, <<63942, <<38446>>>>, <<63943, <<21129>>>>, <<63944, <<26491>>>>,
    <<63945, <<26611>>>>, <<63946, <<27969>>>>, <<63947, <<28316>>>>, <<63948, <<29705>>>>,
    <<63949, <<30041>>>>, <<63950, <<30827>>>>, <<63951, <<32016>>>>, <<63952, <<39006>>>>,
    <<63953, <<20845>>>>, <<63954, <<25134>>>>, <<63955, <<38520>>>>, <<63956, <<20523>>>>,
    <<63957, <<23833>>>>, <<63958, <<28138>>>>, <<63959, <<36650>>>>, <<63960, <<24459>>>>,
    <<63961, <<24900>>>>, <<63962, <<26647>>>>, <<63963, <<29575>>>>, <<63964, <<38534>>>>,
    <<63965, <<21033>>>>, <<63966, <<21519>>>>, <<63967, <<23653>>>>, <<63968, <<26131>>>>,
    <<63969, <<26446>>>>, <<63970, <<26792>>>>, <<63971, <<27877>>>>, <<63972, <<29702>>>>,
    <<63973, <<30178>>>>, <<63974, <<32633>>>>, <<63975, <<35023>>>>, <<63976, <<35041>>>>,
    <<63977, <<37324>>>>, <<63978, <<38626>>>>, <<63979, <<21311>>>>, <<63980, <<28346>>>>,
    <<63981, <<21533>>>>, <<63982, <<29136>>>>, <<63983, <<29848>>>>, <<63984, <<34298>>>>,
    <<63985, <<38563>>>>, <<63986, <<40023>>>>, <<63987, <<40607>>>>, <<63988, <<26519>>>>,
    <<63989, <<28107>>>>, <<63990, <<33256>>>>, <<63991, <<31435>>>>, <<63992, <<31520>>>>,
    <<63993, <<31890>>>>, <<63994, <<29376>>>>, <<63995, <<28825>>>>, <<63996, <<35672>>>>,
    <<63997, <<20160>>>>, <<63998, <<33590>>>>, <<63999, <<21050>>>>, <<64000, <<20999>>>>,
    <<64001, <<24230>>>>, <<64002, <<25299>>>>, <<64003, <<31958>>>>, <<64004, <<23429>>>>,
    <<64005, <<27934>>>>, <<64006, <<26292>>>>, <<64007, <<36667>>>>, <<64008, <<34892>>>>,
    <<64009, <<38477>>>>, <<64010, <<35211>>>>, <<64011, <<24275>>>>, <<64012, <<20800>>>>,
    <<64013, <<21952>>>>, <<64016, <<22618>>>>, <<64018, <<26228>>>>, <<64021, <<20958>>>>,
    <<64022, <<29482>>>>, <<64023, <<30410>>>>, <<64024, <<31036>>>>, <<64025, <<31070>>>>,
    <<64026, <<31077>>>>, <<64027, <<31119>>>>, <<64028, <<38742>>>>, <<64029, <<31934>>>>,
    <<64030, <<32701>>>>, <<64032, <<34322>>>>, <<64034, <<35576>>>>, <<64037, <<36920>>>>,
    <<64038, <<37117>>>>, <<64042, <<39151>>>>, <<64043, <<39164>>>>, <<64044, <<39208>>>>,
    <<64045, <<40372>>>>, <<64046, <<37086>>>>, <<64047, <<38583>>>>, <<64048, <<20398>>>>,
    <<64049, <<20711>>>>, <<64050, <<20813>>>>, <<64051, <<21193>>>>, <<64052, <<21220>>>>,
    <<64053, <<21329>>>>, <<64054, <<21917>>>>, <<64055, <<22022>>>>, <<64056, <<22120>>>>,
    <<64057, <<22592>>>>, <<64058, <<22696>>>>, <<64059, <<23652>>>>, <<64060, <<23662>>>>,
    <<64061, <<24724>>>>, <<64062, <<24936>>>>, <<64063, <<24974>>>>, <<64064, <<25074>>>>,
    <<64065, <<25935>>>>, <<64066, <<26082>>>>, <<64067, <<26257>>>>, <<64068, <<26757>>>>,
    <<64069, <<28023>>>>, <<64070, <<28186>>>>, <<64071, <<28450>>>>, <<64072, <<29038>>>>,
    <<64073, <<29227>>>>, <<64074, <<29730>>>>, <<64075, <<30865>>>>, <<64076, <<31038>>>>,
    <<64077, <<31049>>>>, <<64078, <<31048>>>>, <<64079, <<31056>>>>, <<64080, <<31062>>>>,
    <<64081, <<31069>>>>, <<64082, <<31117>>>>, <<64083, <<31118>>>>, <<64084, <<31296>>>>,
    <<64085, <<31361>>>>, <<64086, <<31680>>>>, <<64087, <<32244>>>>, <<64088, <<32265>>>>,
    <<64089, <<32321>>>>, <<64090, <<32626>>>>, <<64091, <<32773>>>>, <<64092, <<33261>>>>,
    <<64093, <<33401>>>>, <<64094, <<33401>>>>, <<64095, <<33879>>>>, <<64096, <<35088>>>>,
    <<64097, <<35222>>>>, <<64098, <<35585>>>>, <<64099, <<35641>>>>, <<64100, <<36051>>>>,
    <<64101, <<36104>>>>, <<64102, <<36790>>>>, <<64103, <<36920>>>>, <<64104, <<38627>>>>,
    <<64105, <<38911>>>>, <<64106, <<38971>>>>, <<64107, <<24693>>>>, <<64108, <<148206>>>>,
    <<64109, <<33304>>>>, <<64112, <<20006>>>>, <<64113, <<20917>>>>, <<64114, <<20840>>>>,
    <<64115, <<20352>>>>, <<64116, <<20805>>>>, <<64117, <<20864>>>>, <<64118, <<21191>>>>,
    <<64119, <<21242>>>>, <<64120, <<21917>>>>, <<64121, <<21845>>>>, <<64122, <<21913>>>>,
    <<64123, <<21986>>>>, <<64124, <<22618>>>>, <<64125, <<22707>>>>, <<64126, <<22852>>>>,
    <<64127, <<22868>>>>, <<64128, <<23138>>>>, <<64129, <<23336>>>>, <<64130, <<24274>>>>,
    <<64131, <<24281>>>>, <<64132, <<24425>>>>, <<64133, <<24493>>>>, <<64134, <<24792>>>>,
    <<64135, <<24910>>>>, <<64136, <<24840>>>>, <<64137, <<24974>>>>, <<64138, <<24928>>>>,
    <<64139, <<25074>>>>, <<64140, <<25140>>>>, <<64141, <<25540>>>>, <<64142, <<25628>>>>,
    <<64143, <<25682>>>>, <<64144, <<25942>>>>, <<64145, <<26228>>>>, <<64146, <<26391>>>>,
    <<64147, <<26395>>>>, <<64148, <<26454>>>>, <<64149, <<27513>>>>, <<64150, <<27578>>>>,
    <<64151, <<27969>>>>, <<64152, <<28379>>>>, <<64153, <<28363>>>>, <<64154, <<28450>>>>,
    <<64155, <<28702>>>>, <<64156, <<29038>>>>, <<64157, <<30631>>>>, <<64158, <<29237>>>>,
    <<64159, <<29359>>>>, <<64160, <<29482>>>>, <<64161, <<29809>>>>, <<64162, <<29958>>>>,
    <<64163, <<30011>>>>, <<64164, <<30237>>>>, <<64165, <<30239>>>>, <<64166, <<30410>>>>,
    <<64167, <<30427>>>>, <<64168, <<30452>>>>, <<64169, <<30538>>>>, <<64170, <<30528>>>>,
    <<64171, <<30924>>>>, <<64172, <<31409>>>>, <<64173, <<31680>>>>, <<64174, <<31867>>>>,
    <<64175, <<32091>>>>, <<64176, <<32244>>>>, <<64177, <<32574>>>>, <<64178, <<32773>>>>,
    <<64179, <<33618>>>>, <<64180, <<33775>>>>, <<64181, <<34681>>>>, <<64182, <<35137>>>>,
    <<64183, <<35206>>>>, <<64184, <<35222>>>>, <<64185, <<35519>>>>, <<64186, <<35576>>>>,
    <<64187, <<35531>>>>, <<64188, <<35585>>>>, <<64189, <<35582>>>>, <<64190, <<35565>>>>,
    <<64191, <<35641>>>>, <<64192, <<35722>>>>, <<64193, <<36104>>>>, <<64194, <<36664>>>>,
    <<64195, <<36978>>>>, <<64196, <<37273>>>>, <<64197, <<37494>>>>, <<64198, <<38524>>>>,
    <<64199, <<38627>>>>, <<64200, <<38742>>>>, <<64201, <<38875>>>>, <<64202, <<38911>>>>,
    <<64203, <<38923>>>>, <<64204, <<38971>>>>, <<64205, <<39698>>>>, <<64206, <<40860>>>>,
    <<64207, <<141386>>>>, <<64208, <<141380>>>>, <<64209, <<144341>>>>, <<64210, <<15261>>>>,
    <<64211, <<16408>>>>, <<64212, <<16441>>>>, <<64213, <<152137>>>>, <<64214, <<154832>>>>,
    <<64215, <<163539>>>>, <<64216, <<40771>>>>, <<64217, <<40846>>>>, <<64256, <<102, 102>>>>,
    <<64257, <<102, 105>>>>, <<64258, <<102, 108>>>>, <<64259, <<102, 102, 105>>>>,
    <<64260, <<102, 102, 108>>>>, <<64261, <<115, 116>>>>, <<64262, <<115, 116>>>>,
    <<64275, <<1396, 1398>>>>, <<64276, <<1396, 1381>>>>, <<64277, <<1396, 1387>>>>,
    <<64278, <<1406, 1398>>>>, <<64279, <<1396, 1389>>>>, <<64285, <<1497, 1460>>>>,
    <<64287, <<1522, 1463>>>>, <<64288, <<1506>>>>, <<64289, <<1488>>>>, <<64290, <<1491>>>>,
    <<64291, <<1492>>>>, <<64292, <<1499>>>>, <<64293, <<1500>>>>, <<64294, <<1501>>>>,
    <<64295, <<1512>>>>, <<64296, <<1514>>>>, <<64297, <<43>>>>, <<64298, <<1513, 1473>>>>,
    <<64299, <<1513, 1474>>>>, <<64300, <<1513, 1468, 1473>>>>,
    <<64301, <<1513, 1468, 1474>>>>, <<64302, <<1488, 1463>>>>, <<64303, <<1488, 1464>>>>,
    <<64304, <<1488, 1468>>>>, <<64305, <<1489, 1468>>>>, <<64306, <<1490, 1468>>>>,
    <<64307, <<1491, 1468>>>>, <<64308, <<1492, 1468>>>>, <<64309, <<1493, 1468>>>>,
    <<64310, <<1494, 1468>>>>, <<64312, <<1496, 1468>>>>, <<64313, <<1497, 1468>>>>,
    <<64314, <<1498, 1468>>>>, <<64315, <<1499, 1468>>>>, <<64316, <<1500, 1468>>>>,
    <<64318, <<1502, 1468>>>>, <<64320, <<1504, 1468>>>>, <<64321, <<1505, 1468>>>>,
    <<64323, <<1507, 1468>>>>, <<64324, <<1508, 1468>>>>, <<64326, <<1510, 1468>>>>,
    <<64327, <<1511, 1468>>>>, <<64328, <<1512, 1468>>>>, <<64329, <<1513, 1468>>>>,
    <<64330, <<1514, 1468>>>>, <<64331, <<1493, 1465>>>>, <<64332, <<1489, 1471>>>>,
    <<64333, <<1499, 1471>>>>, <<64334, <<1508, 1471>>>>, <<64335, <<1488, 1500>>>>,
    <<64336, <<1649>>>>, <<64337, <<1649>>>>, <<64338, <<1659>>>>, <<64339, <<1659>>>>,
    <<64340, <<1659>>>>, <<64341, <<1659>>>>, <<64342, <<1662>>>>, <<64343, <<1662>>>>,
    <<64344, <<1662>>>>, <<64345, <<1662>>>>, <<64346, <<1664>>>>, <<64347, <<1664>>>>,
    <<64348, <<1664>>>>, <<64349, <<1664>>>>, <<64350, <<1658>>>>, <<64351, <<1658>>>>,
    <<64352, <<1658>>>>, <<64353, <<1658>>>>, <<64354, <<1663>>>>, <<64355, <<1663>>>>,
    <<64356, <<1663>>>>, <<64357, <<1663>>>>, <<64358, <<1657>>>>, <<64359, <<1657>>>>,
    <<64360, <<1657>>>>, <<64361, <<1657>>>>, <<64362, <<1700>>>>, <<64363, <<1700>>>>,
    <<64364, <<1700>>>>, <<64365, <<1700>>>>, <<64366, <<1702>>>>, <<64367, <<1702>>>>,
    <<64368, <<1702>>>>, <<64369, <<1702>>>>, <<64370, <<1668>>>>, <<64371, <<1668>>>>,
    <<64372, <<1668>>>>, <<64373, <<1668>>>>, <<64374, <<1667>>>>, <<64375, <<1667>>>>,
    <<64376, <<1667>>>>, <<64377, <<1667>>>>, <<64378, <<1670>>>>, <<64379, <<1670>>>>,
    <<64380, <<1670>>>>, <<64381, <<1670>>>>, <<64382, <<1671>>>>, <<64383, <<1671>>>>,
    <<64384, <<1671>>>>, <<64385, <<1671>>>>, <<64386, <<1677>>>>, <<64387, <<1677>>>>,
    <<64388, <<1676>>>>, <<64389, <<1676>>>>, <<64390, <<1678>>>>, <<64391, <<1678>>>>,
    <<64392, <<1672>>>>, <<64393, <<1672>>>>, <<64394, <<1688>>>>, <<64395, <<1688>>>>,
    <<64396, <<1681>>>>, <<64397, <<1681>>>>, <<64398, <<1705>>>>, <<64399, <<1705>>>>,
    <<64400, <<1705>>>>, <<64401, <<1705>>>>, <<64402, <<1711>>>>, <<64403, <<1711>>>>,
    <<64404, <<1711>>>>, <<64405, <<1711>>>>, <<64406, <<1715>>>>, <<64407, <<1715>>>>,
    <<64408, <<1715>>>>, <<64409, <<1715>>>>, <<64410, <<1713>>>>, <<64411, <<1713>>>>,
    <<64412, <<1713>>>>, <<64413, <<1713>>>>, <<64414, <<1722>>>>, <<64415, <<1722>>>>,
    <<64416, <<1723>>>>, <<64417, <<1723>>>>, <<64418, <<1723>>>>, <<64419, <<1723>>>>,
    <<64420, <<1749, 1620>>>>, <<64421, <<1749, 1620>>>>, <<64422, <<1729>>>>,
    <<64423, <<1729>>>>, <<64424, <<1729>>>>, <<64425, <<1729>>>>, <<64426, <<1726>>>>,
    <<64427, <<1726>>>>, <<64428, <<1726>>>>, <<64429, <<1726>>>>, <<64430, <<1746>>>>,
    <<64431, <<1746>>>>, <<64432, <<1746, 1620>>>>, <<64433, <<1746, 1620>>>>,
    <<64467, <<1709>>>>, <<64468, <<1709>>>>, <<64469, <<1709>>>>, <<64470, <<1709>>>>,
    <<64471, <<1735>>>>, <<64472, <<1735>>>>, <<64473, <<1734>>>>, <<64474, <<1734>>>>,
    <<64475, <<1736>>>>, <<64476, <<1736>>>>, <<64477, <<1735, 1652>>>>, <<64478, <<1739>>>>,
    <<64479, <<1739>>>>, <<64480, <<1733>>>>, <<64481, <<1733>>>>, <<64482, <<1737>>>>,
    <<64483, <<1737>>>>, <<64484, <<1744>>>>, <<64485, <<1744>>>>, <<64486, <<1744>>>>,
    <<64487, <<1744>>>>, <<64488, <<1609>>>>, <<64489, <<1609>>>>,
    <<64490, <<1610, 1620, 1575>>>>, <<64491, <<1610, 1620, 1575>>>>,
    <<64492, <<1610, 1620, 1749>>>>, <<64493, <<1610, 1620, 1749>>>>,
    <<64494, <<1610, 1620, 1608>>>>, <<64495, <<1610, 1620, 1608>>>>,
    <<64496, <<1610, 1620, 1735>>>>, <<64497, <<1610, 1620, 1735>>>>,
    <<64498, <<1610, 1620, 1734>>>>, <<64499, <<1610, 1620, 1734>>>>,
    <<64500, <<1610, 1620, 1736>>>>, <<64501, <<1610, 1620, 1736>>>>,
    <<64502, <<1610, 1620, 1744>>>>, <<64503, <<1610, 1620, 1744>>>>,
    <<64504, <<1610, 1620, 1744>>>>, <<64505, <<1610, 1620, 1609>>>>,
    <<64506, <<1610, 1620, 1609>>>>, <<64507, <<1610, 1620, 1609>>>>, <<64508, <<1740>>>>,
    <<64509, <<1740>>>>, <<64510, <<1740>>>>, <<64511, <<1740>>>>,
    <<64512, <<1610, 1620, 1580>>>>, <<64513, <<1610, 1620, 1581>>>>,
    <<64514, <<1610, 1620, 1605>>>>, <<64515, <<1610, 1620, 1609>>>>,
    <<64516, <<1610, 1620, 1610>>>>, <<64517, <<1576, 1580>>>>, <<64518, <<1576, 1581>>>>,
    <<64519, <<1576, 1582>>>>, <<64520, <<1576, 1605>>>>, <<64521, <<1576, 1609>>>>,
    <<64522, <<1576, 1610>>>>, <<64523, <<1578, 1580>>>>, <<64524, <<1578, 1581>>>>,
    <<64525, <<1578, 1582>>>>, <<64526, <<1578, 1605>>>>, <<64527, <<1578, 1609>>>>,
    <<64528, <<1578, 1610>>>>, <<64529, <<1579, 1580>>>>, <<64530, <<1579, 1605>>>>,
    <<64531, <<1579, 1609>>>>, <<64532, <<1579, 1610>>>>, <<64533, <<1580, 1581>>>>,
    <<64534, <<1580, 1605>>>>, <<64535, <<1581, 1580>>>>, <<64536, <<1581, 1605>>>>,
    <<64537, <<1582, 1580>>>>, <<64538, <<1582, 1581>>>>, <<64539, <<1582, 1605>>>>,
    <<64540, <<1587, 1580>>>>, <<64541, <<1587, 1581>>>>, <<64542, <<1587, 1582>>>>,
    <<64543, <<1587, 1605>>>>, <<64544, <<1589, 1581>>>>, <<64545, <<1589, 1605>>>>,
    <<64546, <<1590, 1580>>>>, <<64547, <<1590, 1581>>>>, <<64548, <<1590, 1582>>>>,
    <<64549, <<1590, 1605>>>>, <<64550, <<1591, 1581>>>>, <<64551, <<1591, 1605>>>>,
    <<64552, <<1592, 1605>>>>, <<64553, <<1593, 1580>>>>, <<64554, <<1593, 1605>>>>,
    <<64555, <<1594, 1580>>>>, <<64556, <<1594, 1605>>>>, <<64557, <<1601, 1580>>>>,
    <<64558, <<1601, 1581>>>>, <<64559, <<1601, 1582>>>>, <<64560, <<1601, 1605>>>>,
    <<64561, <<1601, 1609>>>>, <<64562, <<1601, 1610>>>>, <<64563, <<1602, 1581>>>>,
    <<64564, <<1602, 1605>>>>, <<64565, <<1602, 1609>>>>, <<64566, <<1602, 1610>>>>,
    <<64567, <<1603, 1575>>>>, <<64568, <<1603, 1580>>>>, <<64569, <<1603, 1581>>>>,
    <<64570, <<1603, 1582>>>>, <<64571, <<1603, 1604>>>>, <<64572, <<1603, 1605>>>>,
    <<64573, <<1603, 1609>>>>, <<64574, <<1603, 1610>>>>, <<64575, <<1604, 1580>>>>,
    <<64576, <<1604, 1581>>>>, <<64577, <<1604, 1582>>>>, <<64578, <<1604, 1605>>>>,
    <<64579, <<1604, 1609>>>>, <<64580, <<1604, 1610>>>>, <<64581, <<1605, 1580>>>>,
    <<64582, <<1605, 1581>>>>, <<64583, <<1605, 1582>>>>, <<64584, <<1605, 1605>>>>,
    <<64585, <<1605, 1609>>>>, <<64586, <<1605, 1610>>>>, <<64587, <<1606, 1580>>>>,
    <<64588, <<1606, 1581>>>>, <<64589, <<1606, 1582>>>>, <<64590, <<1606, 1605>>>>,
    <<64591, <<1606, 1609>>>>, <<64592, <<1606, 1610>>>>, <<64593, <<1607, 1580>>>>,
    <<64594, <<1607, 1605>>>>, <<64595, <<1607, 1609>>>>, <<64596, <<1607, 1610>>>>,
    <<64597, <<1610, 1580>>>>, <<64598, <<1610, 1581>>>>, <<64599, <<1610, 1582>>>>,
    <<64600, <<1610, 1605>>>>, <<64601, <<1610, 1609>>>>, <<64602, <<1610, 1610>>>>,
    <<64603, <<1584, 1648>>>>, <<64604, <<1585, 1648>>>>, <<64605, <<1609, 1648>>>>,
    <<64606, <<32, 1612, 1617>>>>, <<64607, <<32, 1613, 1617>>>>,
    <<64608, <<32, 1614, 1617>>>>, <<64609, <<32, 1615, 1617>>>>,
    <<64610, <<32, 1616, 1617>>>>, <<64611, <<32, 1617, 1648>>>>,
    <<64612, <<1610, 1620, 1585>>>>, <<64613, <<1610, 1620, 1586>>>>,
    <<64614, <<1610, 1620, 1605>>>>, <<64615, <<1610, 1620, 1606>>>>,
    <<64616, <<1610, 1620, 1609>>>>, <<64617, <<1610, 1620, 1610>>>>,
    <<64618, <<1576, 1585>>>>, <<64619, <<1576, 1586>>>>, <<64620, <<1576, 1605>>>>,
    <<64621, <<1576, 1606>>>>, <<64622, <<1576, 1609>>>>, <<64623, <<1576, 1610>>>>,
    <<64624, <<1578, 1585>>>>, <<64625, <<1578, 1586>>>>, <<64626, <<1578, 1605>>>>,
    <<64627, <<1578, 1606>>>>, <<64628, <<1578, 1609>>>>, <<64629, <<1578, 1610>>>>,
    <<64630, <<1579, 1585>>>>, <<64631, <<1579, 1586>>>>, <<64632, <<1579, 1605>>>>,
    <<64633, <<1579, 1606>>>>, <<64634, <<1579, 1609>>>>, <<64635, <<1579, 1610>>>>,
    <<64636, <<1601, 1609>>>>, <<64637, <<1601, 1610>>>>, <<64638, <<1602, 1609>>>>,
    <<64639, <<1602, 1610>>>>, <<64640, <<1603, 1575>>>>, <<64641, <<1603, 1604>>>>,
    <<64642, <<1603, 1605>>>>, <<64643, <<1603, 1609>>>>, <<64644, <<1603, 1610>>>>,
    <<64645, <<1604, 1605>>>>, <<64646, <<1604, 1609>>>>, <<64647, <<1604, 1610>>>>,
    <<64648, <<1605, 1575>>>>, <<64649, <<1605, 1605>>>>, <<64650, <<1606, 1585>>>>,
    <<64651, <<1606, 1586>>>>, <<64652, <<1606, 1605>>>>, <<64653, <<1606, 1606>>>>,
    <<64654, <<1606, 1609>>>>, <<64655, <<1606, 1610>>>>, <<64656, <<1609, 1648>>>>,
    <<64657, <<1610, 1585>>>>, <<64658, <<1610, 1586>>>>, <<64659, <<1610, 1605>>>>,
    <<64660, <<1610, 1606>>>>, <<64661, <<1610, 1609>>>>, <<64662, <<1610, 1610>>>>,
    <<64663, <<1610, 1620, 1580>>>>, <<64664, <<1610, 1620, 1581>>>>,
    <<64665, <<1610, 1620, 1582>>>>, <<64666, <<1610, 1620, 1605>>>>,
    <<64667, <<1610, 1620, 1607>>>>, <<64668, <<1576, 1580>>>>, <<64669, <<1576, 1581>>>>,
    <<64670, <<1576, 1582>>>>, <<64671, <<1576, 1605>>>>, <<64672, <<1576, 1607>>>>,
    <<64673, <<1578, 1580>>>>, <<64674, <<1578, 1581>>>>, <<64675, <<1578, 1582>>>>,
    <<64676, <<1578, 1605>>>>, <<64677, <<1578, 1607>>>>, <<64678, <<1579, 1605>>>>,
    <<64679, <<1580, 1581>>>>, <<64680, <<1580, 1605>>>>, <<64681, <<1581, 1580>>>>,
    <<64682, <<1581, 1605>>>>, <<64683, <<1582, 1580>>>>, <<64684, <<1582, 1605>>>>,
    <<64685, <<1587, 1580>>>>, <<64686, <<1587, 1581>>>>, <<64687, <<1587, 1582>>>>,
    <<64688, <<1587, 1605>>>>, <<64689, <<1589, 1581>>>>, <<64690, <<1589, 1582>>>>,
    <<64691, <<1589, 1605>>>>, <<64692, <<1590, 1580>>>>, <<64693, <<1590, 1581>>>>,
    <<64694, <<1590, 1582>>>>, <<64695, <<1590, 1605>>>>, <<64696, <<1591, 1581>>>>,
    <<64697, <<1592, 1605>>>>, <<64698, <<1593, 1580>>>>, <<64699, <<1593, 1605>>>>,
    <<64700, <<1594, 1580>>>>, <<64701, <<1594, 1605>>>>, <<64702, <<1601, 1580>>>>,
    <<64703, <<1601, 1581>>>>, <<64704, <<1601, 1582>>>>, <<64705, <<1601, 1605>>>>,
    <<64706, <<1602, 1581>>>>, <<64707, <<1602, 1605>>>>, <<64708, <<1603, 1580>>>>,
    <<64709, <<1603, 1581>>>>, <<64710, <<1603, 1582>>>>, <<64711, <<1603, 1604>>>>,
    <<64712, <<1603, 1605>>>>, <<64713, <<1604, 1580>>>>, <<64714, <<1604, 1581>>>>,
    <<64715, <<1604, 1582>>>>, <<64716, <<1604, 1605>>>>, <<64717, <<1604, 1607>>>>,
    <<64718, <<1605, 1580>>>>, <<64719, <<1605, 1581>>>>, <<64720, <<1605, 1582>>>>,
    <<64721, <<1605, 1605>>>>, <<64722, <<1606, 1580>>>>, <<64723, <<1606, 1581>>>>,
    <<64724, <<1606, 1582>>>>, <<64725, <<1606, 1605>>>>, <<64726, <<1606, 1607>>>>,
    <<64727, <<1607, 1580>>>>, <<64728, <<1607, 1605>>>>, <<64729, <<1607, 1648>>>>,
    <<64730, <<1610, 1580>>>>, <<64731, <<1610, 1581>>>>, <<64732, <<1610, 1582>>>>,
    <<64733, <<1610, 1605>>>>, <<64734, <<1610, 1607>>>>, <<64735, <<1610, 1620, 1605>>>>,
    <<64736, <<1610, 1620, 1607>>>>, <<64737, <<1576, 1605>>>>, <<64738, <<1576, 1607>>>>,
    <<64739, <<1578, 1605>>>>, <<64740, <<1578, 1607>>>>, <<64741, <<1579, 1605>>>>,
    <<64742, <<1579, 1607>>>>, <<64743, <<1587, 1605>>>>, <<64744, <<1587, 1607>>>>,
    <<64745, <<1588, 1605>>>>, <<64746, <<1588, 1607>>>>, <<64747, <<1603, 1604>>>>,
    <<64748, <<1603, 1605>>>>, <<64749, <<1604, 1605>>>>, <<64750, <<1606, 1605>>>>,
    <<64751, <<1606, 1607>>>>, <<64752, <<1610, 1605>>>>, <<64753, <<1610, 1607>>>>,
    <<64754, <<1600, 1614, 1617>>>>, <<64755, <<1600, 1615, 1617>>>>,
    <<64756, <<1600, 1616, 1617>>>>, <<64757, <<1591, 1609>>>>, <<64758, <<1591, 1610>>>>,
    <<64759, <<1593, 1609>>>>, <<64760, <<1593, 1610>>>>, <<64761, <<1594, 1609>>>>,
    <<64762, <<1594, 1610>>>>, <<64763, <<1587, 1609>>>>, <<64764, <<1587, 1610>>>>,
    <<64765, <<1588, 1609>>>>, <<64766, <<1588, 1610>>>>, <<64767, <<1581, 1609>>>>,
    <<64768, <<1581, 1610>>>>, <<64769, <<1580, 1609>>>>, <<64770, <<1580, 1610>>>>,
    <<64771, <<1582, 1609>>>>, <<64772, <<1582, 1610>>>>, <<64773, <<1589, 1609>>>>,
    <<64774, <<1589, 1610>>>>, <<64775, <<1590, 1609>>>>, <<64776, <<1590, 1610>>>>,
    <<64777, <<1588, 1580>>>>, <<64778, <<1588, 1581>>>>, <<64779, <<1588, 1582>>>>,
    <<64780, <<1588, 1605>>>>, <<64781, <<1588, 1585>>>>, <<64782, <<1587, 1585>>>>,
    <<64783, <<1589, 1585>>>>, <<64784, <<1590, 1585>>>>, <<64785, <<1591, 1609>>>>,
    <<64786, <<1591, 1610>>>>, <<64787, <<1593, 1609>>>>, <<64788, <<1593, 1610>>>>,
    <<64789, <<1594, 1609>>>>, <<64790, <<1594, 1610>>>>, <<64791, <<1587, 1609>>>>,
    <<64792, <<1587, 1610>>>>, <<64793, <<1588, 1609>>>>, <<64794, <<1588, 1610>>>>,
    <<64795, <<1581, 1609>>>>, <<64796, <<1581, 1610>>>>, <<64797, <<1580, 1609>>>>,
    <<64798, <<1580, 1610>>>>, <<64799, <<1582, 1609>>>>, <<64800, <<1582, 1610>>>>,
    <<64801, <<1589, 1609>>>>, <<64802, <<1589, 1610>>>>, <<64803, <<1590, 1609>>>>,
    <<64804, <<1590, 1610>>>>, <<64805, <<1588, 1580>>>>, <<64806, <<1588, 1581>>>>,
    <<64807, <<1588, 1582>>>>, <<64808, <<1588, 1605>>>>, <<64809, <<1588, 1585>>>>,
    <<64810, <<1587, 1585>>>>, <<64811, <<1589, 1585>>>>, <<64812, <<1590, 1585>>>>,
    <<64813, <<1588, 1580>>>>, <<64814, <<1588, 1581>>>>, <<64815, <<1588, 1582>>>>,
    <<64816, <<1588, 1605>>>>, <<64817, <<1587, 1607>>>>, <<64818, <<1588, 1607>>>>,
    <<64819, <<1591, 1605>>>>, <<64820, <<1587, 1580>>>>, <<64821, <<1587, 1581>>>>,
    <<64822, <<1587, 1582>>>>, <<64823, <<1588, 1580>>>>, <<64824, <<1588, 1581>>>>,
    <<64825, <<1588, 1582>>>>, <<64826, <<1591, 1605>>>>, <<64827, <<1592, 1605>>>>,
    <<64828, <<1575, 1611>>>>, <<64829, <<1575, 1611>>>>, <<64848, <<1578, 1580, 1605>>>>,
    <<64849, <<1578, 1581, 1580>>>>, <<64850, <<1578, 1581, 1580>>>>,
    <<64851, <<1578, 1581, 1605>>>>, <<64852, <<1578, 1582, 1605>>>>,
    <<64853, <<1578, 1605, 1580>>>>, <<64854, <<1578, 1605, 1581>>>>,
    <<64855, <<1578, 1605, 1582>>>>, <<64856, <<1580, 1605, 1581>>>>,
    <<64857, <<1580, 1605, 1581>>>>, <<64858, <<1581, 1605, 1610>>>>,
    <<64859, <<1581, 1605, 1609>>>>, <<64860, <<1587, 1581, 1580>>>>,
    <<64861, <<1587, 1580, 1581>>>>, <<64862, <<1587, 1580, 1609>>>>,
    <<64863, <<1587, 1605, 1581>>>>, <<64864, <<1587, 1605, 1581>>>>,
    <<64865, <<1587, 1605, 1580>>>>, <<64866, <<1587, 1605, 1605>>>>,
    <<64867, <<1587, 1605, 1605>>>>, <<64868, <<1589, 1581, 1581>>>>,
    <<64869, <<1589, 1581, 1581>>>>, <<64870, <<1589, 1605, 1605>>>>,
    <<64871, <<1588, 1581, 1605>>>>, <<64872, <<1588, 1581, 1605>>>>,
    <<64873, <<1588, 1580, 1610>>>>, <<64874, <<1588, 1605, 1582>>>>,
    <<64875, <<1588, 1605, 1582>>>>, <<64876, <<1588, 1605, 1605>>>>,
    <<64877, <<1588, 1605, 1605>>>>, <<64878, <<1590, 1581, 1609>>>>,
    <<64879, <<1590, 1582, 1605>>>>, <<64880, <<1590, 1582, 1605>>>>,
    <<64881, <<1591, 1605, 1581>>>>, <<64882, <<1591, 1605, 1581>>>>,
    <<64883, <<1591, 1605, 1605>>>>, <<64884, <<1591, 1605, 1610>>>>,
    <<64885, <<1593, 1580, 1605>>>>, <<64886, <<1593, 1605, 1605>>>>,
    <<64887, <<1593, 1605, 1605>>>>, <<64888, <<1593, 1605, 1609>>>>,
    <<64889, <<1594, 1605, 1605>>>>, <<64890, <<1594, 1605, 1610>>>>,
    <<64891, <<1594, 1605, 1609>>>>, <<64892, <<1601, 1582, 1605>>>>,
    <<64893, <<1601, 1582, 1605>>>>, <<64894, <<1602, 1605, 1581>>>>,
    <<64895, <<1602, 1605, 1605>>>>, <<64896, <<1604, 1581, 1605>>>>,
    <<64897, <<1604, 1581, 1610>>>>, <<64898, <<1604, 1581, 1609>>>>,
    <<64899, <<1604, 1580, 1580>>>>, <<64900, <<1604, 1580, 1580>>>>,
    <<64901, <<1604, 1582, 1605>>>>, <<64902, <<1604, 1582, 1605>>>>,
    <<64903, <<1604, 1605, 1581>>>>, <<64904, <<1604, 1605, 1581>>>>,
    <<64905, <<1605, 1581, 1580>>>>, <<64906, <<1605, 1581, 1605>>>>,
    <<64907, <<1605, 1581, 1610>>>>, <<64908, <<1605, 1580, 1581>>>>,
    <<64909, <<1605, 1580, 1605>>>>, <<64910, <<1605, 1582, 1580>>>>,
    <<64911, <<1605, 1582, 1605>>>>, <<64914, <<1605, 1580, 1582>>>>,
    <<64915, <<1607, 1605, 1580>>>>, <<64916, <<1607, 1605, 1605>>>>,
    <<64917, <<1606, 1581, 1605>>>>, <<64918, <<1606, 1581, 1609>>>>,
    <<64919, <<1606, 1580, 1605>>>>, <<64920, <<1606, 1580, 1605>>>>,
    <<64921, <<1606, 1580, 1609>>>>, <<64922, <<1606, 1605, 1610>>>>,
    <<64923, <<1606, 1605, 1609>>>>, <<64924, <<1610, 1605, 1605>>>>,
    <<64925, <<1610, 1605, 1605>>>>, <<64926, <<1576, 1582, 1610>>>>,
    <<64927, <<1578, 1580, 1610>>>>, <<64928, <<1578, 1580, 1609>>>>,
    <<64929, <<1578, 1582, 1610>>>>, <<64930, <<1578, 1582, 1609>>>>,
    <<64931, <<1578, 1605, 1610>>>>, <<64932, <<1578, 1605, 1609>>>>,
    <<64933, <<1580, 1605, 1610>>>>, <<64934, <<1580, 1581, 1609>>>>,
    <<64935, <<1580, 1605, 1609>>>>, <<64936, <<1587, 1582, 1609>>>>,
    <<64937, <<1589, 1581, 1610>>>>, <<64938, <<1588, 1581, 1610>>>>,
    <<64939, <<1590, 1581, 1610>>>>, <<64940, <<1604, 1580, 1610>>>>,
    <<64941, <<1604, 1605, 1610>>>>, <<64942, <<1610, 1581, 1610>>>>,
    <<64943, <<1610, 1580, 1610>>>>, <<64944, <<1610, 1605, 1610>>>>,
    <<64945, <<1605, 1605, 1610>>>>, <<64946, <<1602, 1605, 1610>>>>,
    <<64947, <<1606, 1581, 1610>>>>, <<64948, <<1602, 1605, 1581>>>>,
    <<64949, <<1604, 1581, 1605>>>>, <<64950, <<1593, 1605, 1610>>>>,
    <<64951, <<1603, 1605, 1610>>>>, <<64952, <<1606, 1580, 1581>>>>,
    <<64953, <<1605, 1582, 1610>>>>, <<64954, <<1604, 1580, 1605>>>>,
    <<64955, <<1603, 1605, 1605>>>>, <<64956, <<1604, 1580, 1605>>>>,
    <<64957, <<1606, 1580, 1581>>>>, <<64958, <<1580, 1581, 1610>>>>,
    <<64959, <<1581, 1580, 1610>>>>, <<64960, <<1605, 1580, 1610>>>>,
    <<64961, <<1601, 1605, 1610>>>>, <<64962, <<1576, 1581, 1610>>>>,
    <<64963, <<1603, 1605, 1605>>>>, <<64964, <<1593, 1580, 1605>>>>,
    <<64965, <<1589, 1605, 1605>>>>, <<64966, <<1587, 1582, 1610>>>>,
    <<64967, <<1606, 1580, 1610>>>>, <<65008, <<1589, 1604, 1746>>>>,
    <<65009, <<1602, 1604, 1746>>>>, <<65010, <<1575, 1604, 1604, 1607>>>>,
    <<65011, <<1575, 1603, 1576, 1585>>>>, <<65012, <<1605, 1581, 1605, 1583>>>>,
    <<65013, <<1589, 1604, 1593, 1605>>>>, <<65014, <<1585, 1587, 1608, 1604>>>>,
    <<65015, <<1593, 1604, 1610, 1607>>>>, <<65016, <<1608, 1587, 1604, 1605>>>>,
    <<65017, <<1589, 1604, 1609>>>>,
    <<65018, <<1589, 1604, 1609, 32, 1575, 1604, 1604, 1607, 32, 1593, 1604, 1610, 1607, 32, 1608, 1587, 1604, 1605>>>>,
    <<65019, <<1580, 1604, 32, 1580, 1604, 1575, 1604, 1607>>>>,
    <<65020, <<1585, 1740, 1575, 1604>>>>, <<65040, <<44>>>>, <<65041, <<12289>>>>,
    <<65042, <<12290>>>>, <<65043, <<58>>>>, <<65044, <<59>>>>, <<65045, <<33>>>>,
    <<65046, <<63>>>>, <<65047, <<12310>>>>, <<65048, <<12311>>>>, <<65049, <<46, 46, 46>>>>,
    <<65072, <<46, 46>>>>, <<65073, <<8212>>>>, <<65074, <<8211>>>>, <<65075, <<95>>>>,
    <<65076, <<95>>>>, <<65077, <<40>>>>, <<65078, <<41>>>>, <<65079, <<123>>>>,
    <<65080, <<125>>>>, <<65081, <<12308>>>>, <<65082, <<12309>>>>, <<65083, <<12304>>>>,
    <<65084, <<12305>>>>, <<65085, <<12298>>>>, <<65086, <<12299>>>>, <<65087, <<12296>>>>,
    <<65088, <<12297>>>>, <<65089, <<12300>>>>, <<65090, <<12301>>>>, <<65091, <<12302>>>>,
    <<65092, <<12303>>>>, <<65095, <<91>>>>, <<65096, <<93>>>>, <<65097, <<32, 773>>>>,
    <<65098, <<32, 773>>>>, <<65099, <<32, 773>>>>, <<65100, <<32, 773>>>>, <<65101, <<95>>>>,
    <<65102, <<95>>>>, <<65103, <<95>>>>, <<65104, <<44>>>>, <<65105, <<12289>>>>,
    <<65106, <<46>>>>, <<65108, <<59>>>>, <<65109, <<58>>>>, <<65110, <<63>>>>,
    <<65111, <<33>>>>, <<65112, <<8212>>>>, <<65113, <<40>>>>, <<65114, <<41>>>>,
    <<65115, <<123>>>>, <<65116, <<125>>>>, <<65117, <<12308>>>>, <<65118, <<12309>>>>,
    <<65119, <<35>>>>, <<65120, <<38>>>>, <<65121, <<42>>>>, <<65122, <<43>>>>,
    <<65123, <<45>>>>, <<65124, <<60>>>>, <<65125, <<62>>>>, <<65126, <<61>>>>,
    <<65128, <<92>>>>, <<65129, <<36>>>>, <<65130, <<37>>>>, <<65131, <<64>>>>,
    <<65136, <<32, 1611>>>>, <<65137, <<1600, 1611>>>>, <<65138, <<32, 1612>>>>,
    <<65140, <<32, 1613>>>>, <<65142, <<32, 1614>>>>, <<65143, <<1600, 1614>>>>,
    <<65144, <<32, 1615>>>>, <<65145, <<1600, 1615>>>>, <<65146, <<32, 1616>>>>,
    <<65147, <<1600, 1616>>>>, <<65148, <<32, 1617>>>>, <<65149, <<1600, 1617>>>>,
    <<65150, <<32, 1618>>>>, <<65151, <<1600, 1618>>>>, <<65152, <<1569>>>>,
    <<65153, <<1575, 1619>>>>, <<65154, <<1575, 1619>>>>, <<65155, <<1575, 1620>>>>,
    <<65156, <<1575, 1620>>>>, <<65157, <<1608, 1620>>>>, <<65158, <<1608, 1620>>>>,
    <<65159, <<1575, 1621>>>>, <<65160, <<1575, 1621>>>>, <<65161, <<1610, 1620>>>>,
    <<65162, <<1610, 1620>>>>, <<65163, <<1610, 1620>>>>, <<65164, <<1610, 1620>>>>,
    <<65165, <<1575>>>>, <<65166, <<1575>>>>, <<65167, <<1576>>>>, <<65168, <<1576>>>>,
    <<65169, <<1576>>>>, <<65170, <<1576>>>>, <<65171, <<1577>>>>, <<65172, <<1577>>>>,
    <<65173, <<1578>>>>, <<65174, <<1578>>>>, <<65175, <<1578>>>>, <<65176, <<1578>>>>,
    <<65177, <<1579>>>>, <<65178, <<1579>>>>, <<65179, <<1579>>>>, <<65180, <<1579>>>>,
    <<65181, <<1580>>>>, <<65182, <<1580>>>>, <<65183, <<1580>>>>, <<65184, <<1580>>>>,
    <<65185, <<1581>>>>, <<65186, <<1581>>>>, <<65187, <<1581>>>>, <<65188, <<1581>>>>,
    <<65189, <<1582>>>>, <<65190, <<1582>>>>, <<65191, <<1582>>>>, <<65192, <<1582>>>>,
    <<65193, <<1583>>>>, <<65194, <<1583>>>>, <<65195, <<1584>>>>, <<65196, <<1584>>>>,
    <<65197, <<1585>>>>, <<65198, <<1585>>>>, <<65199, <<1586>>>>, <<65200, <<1586>>>>,
    <<65201, <<1587>>>>, <<65202, <<1587>>>>, <<65203, <<1587>>>>, <<65204, <<1587>>>>,
    <<65205, <<1588>>>>, <<65206, <<1588>>>>, <<65207, <<1588>>>>, <<65208, <<1588>>>>,
    <<65209, <<1589>>>>, <<65210, <<1589>>>>, <<65211, <<1589>>>>, <<65212, <<1589>>>>,
    <<65213, <<1590>>>>, <<65214, <<1590>>>>, <<65215, <<1590>>>>, <<65216, <<1590>>>>,
    <<65217, <<1591>>>>, <<65218, <<1591>>>>, <<65219, <<1591>>>>, <<65220, <<1591>>>>,
    <<65221, <<1592>>>>, <<65222, <<1592>>>>, <<65223, <<1592>>>>, <<65224, <<1592>>>>,
    <<65225, <<1593>>>>, <<65226, <<1593>>>>, <<65227, <<1593>>>>, <<65228, <<1593>>>>,
    <<65229, <<1594>>>>, <<65230, <<1594>>>>, <<65231, <<1594>>>>, <<65232, <<1594>>>>,
    <<65233, <<1601>>>>, <<65234, <<1601>>>>, <<65235, <<1601>>>>, <<65236, <<1601>>>>,
    <<65237, <<1602>>>>, <<65238, <<1602>>>>, <<65239, <<1602>>>>, <<65240, <<1602>>>>,
    <<65241, <<1603>>>>, <<65242, <<1603>>>>, <<65243, <<1603>>>>, <<65244, <<1603>>>>,
    <<65245, <<1604>>>>, <<65246, <<1604>>>>, <<65247, <<1604>>>>, <<65248, <<1604>>>>,
    <<65249, <<1605>>>>, <<65250, <<1605>>>>, <<65251, <<1605>>>>, <<65252, <<1605>>>>,
    <<65253, <<1606>>>>, <<65254, <<1606>>>>, <<65255, <<1606>>>>, <<65256, <<1606>>>>,
    <<65257, <<1607>>>>, <<65258, <<1607>>>>, <<65259, <<1607>>>>, <<65260, <<1607>>>>,
    <<65261, <<1608>>>>, <<65262, <<1608>>>>, <<65263, <<1609>>>>, <<65264, <<1609>>>>,
    <<65265, <<1610>>>>, <<65266, <<1610>>>>, <<65267, <<1610>>>>, <<65268, <<1610>>>>,
    <<65269, <<1604, 1575, 1619>>>>, <<65270, <<1604, 1575, 1619>>>>,
    <<65271, <<1604, 1575, 1620>>>>, <<65272, <<1604, 1575, 1620>>>>,
    <<65273, <<1604, 1575, 1621>>>>, <<65274, <<1604, 1575, 1621>>>>,
    <<65275, <<1604, 1575>>>>, <<65276, <<1604, 1575>>>>, <<65281, <<33>>>>, <<65282, <<34>>>>,
    <<65283, <<35>>>>, <<65284, <<36>>>>, <<65285, <<37>>>>, <<65286, <<38>>>>,
    <<65287, <<39>>>>, <<65288, <<40>>>>, <<65289, <<41>>>>, <<65290, <<42>>>>,
    <<65291, <<43>>>>, <<65292, <<44>>>>, <<65293, <<45>>>>, <<65294, <<46>>>>,
    <<65295, <<47>>>>, <<65296, <<48>>>>, <<65297, <<49>>>>, <<65298, <<50>>>>,
    <<65299, <<51>>>>, <<65300, <<52>>>>, <<65301, <<53>>>>, <<65302, <<54>>>>,
    <<65303, <<55>>>>, <<65304, <<56>>>>, <<65305, <<57>>>>, <<65306, <<58>>>>,
    <<65307, <<59>>>>, <<65308, <<60>>>>, <<65309, <<61>>>>, <<65310, <<62>>>>,
    <<65311, <<63>>>>, <<65312, <<64>>>>, <<65313, <<65>>>>, <<65314, <<66>>>>,
    <<65315, <<67>>>>, <<65316, <<68>>>>, <<65317, <<69>>>>, <<65318, <<70>>>>,
    <<65319, <<71>>>>, <<65320, <<72>>>>, <<65321, <<73>>>>, <<65322, <<74>>>>,
    <<65323, <<75>>>>, <<65324, <<76>>>>, <<65325, <<77>>>>, <<65326, <<78>>>>,
    <<65327, <<79>>>>, <<65328, <<80>>>>, <<65329, <<81>>>>, <<65330, <<82>>>>,
    <<65331, <<83>>>>, <<65332, <<84>>>>, <<65333, <<85>>>>, <<65334, <<86>>>>,
    <<65335, <<87>>>>, <<65336, <<88>>>>, <<65337, <<89>>>>, <<65338, <<90>>>>,
    <<65339, <<91>>>>, <<65340, <<92>>>>, <<65341, <<93>>>>, <<65342, <<94>>>>,
    <<65343, <<95>>>>, <<65344, <<96>>>>, <<65345, <<97>>>>, <<65346, <<98>>>>,
    <<65347, <<99>>>>, <<65348, <<100>>>>, <<65349, <<101>>>>, <<65350, <<102>>>>,
    <<65351, <<103>>>>, <<65352, <<104>>>>, <<65353, <<105>>>>, <<65354, <<106>>>>,
    <<65355, <<107>>>>, <<65356, <<108>>>>, <<65357, <<109>>>>, <<65358, <<110>>>>,
    <<65359, <<111>>>>, <<65360, <<112>>>>, <<65361, <<113>>>>, <<65362, <<114>>>>,
    <<65363, <<115>>>>, <<65364, <<116>>>>, <<65365, <<117>>>>, <<65366, <<118>>>>,
    <<65367, <<119>>>>, <<65368, <<120>>>>, <<65369, <<121>>>>, <<65370, <<122>>>>,
    <<65371, <<123>>>>, <<65372, <<124>>>>, <<65373, <<125>>>>, <<65374, <<126>>>>,
    <<65375, <<10629>>>>, <<65376, <<10630>>>>, <<65377, <<12290>>>>, <<65378, <<12300>>>>,
    <<65379, <<12301>>>>, <<65380, <<12289>>>>, <<65381, <<12539>>>>, <<65382, <<12530>>>>,
    <<65383, <<12449>>>>, <<65384, <<12451>>>>, <<65385, <<12453>>>>, <<65386, <<12455>>>>,
    <<65387, <<12457>>>>, <<65388, <<12515>>>>, <<65389, <<12517>>>>, <<65390, <<12519>>>>,
    <<65391, <<12483>>>>, <<65392, <<12540>>>>, <<65393, <<12450>>>>, <<65394, <<12452>>>>,
    <<65395, <<12454>>>>, <<65396, <<12456>>>>, <<65397, <<12458>>>>, <<65398, <<12459>>>>,
    <<65399, <<12461>>>>, <<65400, <<12463>>>>, <<65401, <<12465>>>>, <<65402, <<12467>>>>,
    <<65403, <<12469>>>>, <<65404, <<12471>>>>, <<65405, <<12473>>>>, <<65406, <<12475>>>>,
    <<65407, <<12477>>>>, <<65408, <<12479>>>>, <<65409, <<12481>>>>, <<65410, <<12484>>>>,
    <<65411, <<12486>>>>, <<65412, <<12488>>>>, <<65413, <<12490>>>>, <<65414, <<12491>>>>,
    <<65415, <<12492>>>>, <<65416, <<12493>>>>, <<65417, <<12494>>>>, <<65418, <<12495>>>>,
    <<65419, <<12498>>>>, <<65420, <<12501>>>>, <<65421, <<12504>>>>, <<65422, <<12507>>>>,
    <<65423, <<12510>>>>, <<65424, <<12511>>>>, <<65425, <<12512>>>>, <<65426, <<12513>>>>,
    <<65427, <<12514>>>>, <<65428, <<12516>>>>, <<65429, <<12518>>>>, <<65430, <<12520>>>>,
    <<65431, <<12521>>>>, <<65432, <<12522>>>>, <<65433, <<12523>>>>, <<65434, <<12524>>>>,
    <<65435, <<12525>>>>, <<65436, <<12527>>>>, <<65437, <<12531>>>>, <<65438, <<12441>>>>,
    <<65439, <<12442>>>>, <<65440, <<4448>>>>, <<65441, <<4352>>>>, <<65442, <<4353>>>>,
    <<65443, <<4522>>>>, <<65444, <<4354>>>>, <<65445, <<4524>>>>, <<65446, <<4525>>>>,
    <<65447, <<4355>>>>, <<65448, <<4356>>>>, <<65449, <<4357>>>>, <<65450, <<4528>>>>,
    <<65451, <<4529>>>>, <<65452, <<4530>>>>, <<65453, <<4531>>>>, <<65454, <<4532>>>>,
    <<65455, <<4533>>>>, <<65456, <<4378>>>>, <<65457, <<4358>>>>, <<65458, <<4359>>>>,
    <<65459, <<4360>>>>, <<65460, <<4385>>>>, <<65461, <<4361>>>>, <<65462, <<4362>>>>,
    <<65463, <<4363>>>>, <<65464, <<4364>>>>, <<65465, <<4365>>>>, <<65466, <<4366>>>>,
    <<65467, <<4367>>>>, <<65468, <<4368>>>>, <<65469, <<4369>>>>, <<65470, <<4370>>>>,
    <<65474, <<4449>>>>, <<65475, <<4450>>>>, <<65476, <<4451>>>>, <<65477, <<4452>>>>,
    <<65478, <<4453>>>>, <<65479, <<4454>>>>, <<65482, <<4455>>>>, <<65483, <<4456>>>>,
    <<65484, <<4457>>>>, <<65485, <<4458>>>>, <<65486, <<4459>>>>, <<65487, <<4460>>>>,
    <<65490, <<4461>>>>, <<65491, <<4462>>>>, <<65492, <<4463>>>>, <<65493, <<4464>>>>,
    <<65494, <<4465>>>>, <<65495, <<4466>>>>, <<65498, <<4467>>>>, <<65499, <<4468>>>>,
    <<65500, <<4469>>>>, <<65504, <<162>>>>, <<65505, <<163>>>>, <<65506, <<172>>>>,
    <<65507, <<32, 772>>>>, <<65508, <<166>>>>, <<65509, <<165>>>>, <<65510, <<8361>>>>,
    <<65512, <<9474>>>>, <<65513, <<8592>>>>, <<65514, <<8593>>>>, <<65515, <<8594>>>>,
    <<65516, <<8595>>>>, <<65517, <<9632>>>>, <<65518, <<9675>>>>, <<67457, <<720>>>>,
    <<67458, <<721>>>>, <<67459, <<230>>>>, <<67460, <<665>>>>, <<67461, <<595>>>>,
    <<67463, <<675>>>>, <<67464, <<43878>>>>, <<67465, <<677>>>>, <<67466, <<676>>>>,
    <<67467, <<598>>>>, <<67468, <<599>>>>, <<67469, <<7569>>>>, <<67470, <<600>>>>,
    <<67471, <<606>>>>, <<67472, <<681>>>>, <<67473, <<612>>>>, <<67474, <<610>>>>,
    <<67475, <<608>>>>, <<67476, <<667>>>>, <<67477, <<295>>>>, <<67478, <<668>>>>,
    <<67479, <<615>>>>, <<67480, <<644>>>>, <<67481, <<682>>>>, <<67482, <<683>>>>,
    <<67483, <<620>>>>, <<67484, <<122628>>>>, <<67485, <<42894>>>>, <<67486, <<622>>>>,
    <<67487, <<122629>>>>, <<67488, <<654>>>>, <<67489, <<122630>>>>, <<67490, <<248>>>>,
    <<67491, <<630>>>>, <<67492, <<631>>>>, <<67493, <<113>>>>, <<67494, <<634>>>>,
    <<67495, <<122632>>>>, <<67496, <<637>>>>, <<67497, <<638>>>>, <<67498, <<640>>>>,
    <<67499, <<680>>>>, <<67500, <<678>>>>, <<67501, <<43879>>>>, <<67502, <<679>>>>,
    <<67503, <<648>>>>, <<67504, <<11377>>>>, <<67506, <<655>>>>, <<67507, <<673>>>>,
    <<67508, <<674>>>>, <<67509, <<664>>>>, <<67510, <<448>>>>, <<67511, <<449>>>>,
    <<67512, <<450>>>>, <<67513, <<122634>>>>, <<67514, <<122654>>>>,
    <<69786, <<69785, 69818>>>>, <<69788, <<69787, 69818>>>>, <<69803, <<69797, 69818>>>>,
    <<69934, <<69937, 69927>>>>, <<69935, <<69938, 69927>>>>, <<70475, <<70471, 70462>>>>,
    <<70476, <<70471, 70487>>>>, <<70843, <<70841, 70842>>>>, <<70844, <<70841, 70832>>>>,
    <<70846, <<70841, 70845>>>>, <<71098, <<71096, 71087>>>>, <<71099, <<71097, 71087>>>>,
    <<71992, <<71989, 71984>>>>, <<119134, <<119127, 119141>>>>,
    <<119135, <<119128, 119141>>>>, <<119136, <<119128, 119141, 119150>>>>,
    <<119137, <<119128, 119141, 119151>>>>, <<119138, <<119128, 119141, 119152>>>>,
    <<119139, <<119128, 119141, 119153>>>>, <<119140, <<119128, 119141, 119154>>>>,
    <<119227, <<119225, 119141>>>>, <<119228, <<119226, 119141>>>>,
    <<119229, <<119225, 119141, 119150>>>>, <<119230, <<119226, 119141, 119150>>>>,
    <<119231, <<119225, 119141, 119151>>>>, <<119232, <<119226, 119141, 119151>>>>,
    <<119808, <<65>>>>, <<119809, <<66>>>>, <<119810, <<67>>>>, <<119811, <<68>>>>,
    <<119812, <<69>>>>, <<119813, <<70>>>>, <<119814, <<71>>>>, <<119815, <<72>>>>,
    <<119816, <<73>>>>, <<119817, <<74>>>>, <<119818, <<75>>>>, <<119819, <<76>>>>,
    <<119820, <<77>>>>, <<119821, <<78>>>>, <<119822, <<79>>>>, <<119823, <<80>>>>,
    <<119824, <<81>>>>, <<119825, <<82>>>>, <<119826, <<83>>>>, <<119827, <<84>>>>,
    <<119828, <<85>>>>, <<119829, <<86>>>>, <<119830, <<87>>>>, <<119831, <<88>>>>,
    <<119832, <<89>>>>, <<119833, <<90>>>>, <<119834, <<97>>>>, <<119835, <<98>>>>,
    <<119836, <<99>>>>, <<119837, <<100>>>>, <<119838, <<101>>>>, <<119839, <<102>>>>,
    <<119840, <<103>>>>, <<119841, <<104>>>>, <<119842, <<105>>>>, <<119843, <<106>>>>,
    <<119844, <<107>>>>, <<119845, <<108>>>>, <<119846, <<109>>>>, <<119847, <<110>>>>,
    <<119848, <<111>>>>, <<119849, <<112>>>>, <<119850, <<113>>>>, <<119851, <<114>>>>,
    <<119852, <<115>>>>, <<119853, <<116>>>>, <<119854, <<117>>>>, <<119855, <<118>>>>,
    <<119856, <<119>>>>, <<119857, <<120>>>>, <<119858, <<121>>>>, <<119859, <<122>>>>,
    <<119860, <<65>>>>, <<119861, <<66>>>>, <<119862, <<67>>>>, <<119863, <<68>>>>,
    <<119864, <<69>>>>, <<119865, <<70>>>>, <<119866, <<71>>>>, <<119867, <<72>>>>,
    <<119868, <<73>>>>, <<119869, <<74>>>>, <<119870, <<75>>>>, <<119871, <<76>>>>,
    <<119872, <<77>>>>, <<119873, <<78>>>>, <<119874, <<79>>>>, <<119875, <<80>>>>,
    <<119876, <<81>>>>, <<119877, <<82>>>>, <<119878, <<83>>>>, <<119879, <<84>>>>,
    <<119880, <<85>>>>, <<119881, <<86>>>>, <<119882, <<87>>>>, <<119883, <<88>>>>,
    <<119884, <<89>>>>, <<119885, <<90>>>>, <<119886, <<97>>>>, <<119887, <<98>>>>,
    <<119888, <<99>>>>, <<119889, <<100>>>>, <<119890, <<101>>>>, <<119891, <<102>>>>,
    <<119892, <<103>>>>, <<119894, <<105>>>>, <<119895, <<106>>>>, <<119896, <<107>>>>,
    <<119897, <<108>>>>, <<119898, <<109>>>>, <<119899, <<110>>>>, <<119900, <<111>>>>,
    <<119901, <<112>>>>, <<119902, <<113>>>>, <<119903, <<114>>>>, <<119904, <<115>>>>,
    <<119905, <<116>>>>, <<119906, <<117>>>>, <<119907, <<118>>>>, <<119908, <<119>>>>,
    <<119909, <<120>>>>, <<119910, <<121>>>>, <<119911, <<122>>>>, <<119912, <<65>>>>,
    <<119913, <<66>>>>, <<119914, <<67>>>>, <<119915, <<68>>>>, <<119916, <<69>>>>,
    <<119917, <<70>>>>, <<119918, <<71>>>>, <<119919, <<72>>>>, <<119920, <<73>>>>,
    <<119921, <<74>>>>, <<119922, <<75>>>>, <<119923, <<76>>>>, <<119924, <<77>>>>,
    <<119925, <<78>>>>, <<119926, <<79>>>>, <<119927, <<80>>>>, <<119928, <<81>>>>,
    <<119929, <<82>>>>, <<119930, <<83>>>>, <<119931, <<84>>>>, <<119932, <<85>>>>,
    <<119933, <<86>>>>, <<119934, <<87>>>>, <<119935, <<88>>>>, <<119936, <<89>>>>,
    <<119937, <<90>>>>, <<119938, <<97>>>>, <<119939, <<98>>>>, <<119940, <<99>>>>,
    <<119941, <<100>>>>, <<119942, <<101>>>>, <<119943, <<102>>>>, <<119944, <<103>>>>,
    <<119945, <<104>>>>, <<119946, <<105>>>>, <<119947, <<106>>>>, <<119948, <<107>>>>,
    <<119949, <<108>>>>, <<119950, <<109>>>>, <<119951, <<110>>>>, <<119952, <<111>>>>,
    <<119953, <<112>>>>, <<119954, <<113>>>>, <<119955, <<114>>>>, <<119956, <<115>>>>,
    <<119957, <<116>>>>, <<119958, <<117>>>>, <<119959, <<118>>>>, <<119960, <<119>>>>,
    <<119961, <<120>>>>, <<119962, <<121>>>>, <<119963, <<122>>>>, <<119964, <<65>>>>,
    <<119966, <<67>>>>, <<119967, <<68>>>>, <<119970, <<71>>>>, <<119973, <<74>>>>,
    <<119974, <<75>>>>, <<119977, <<78>>>>, <<119978, <<79>>>>, <<119979, <<80>>>>,
    <<119980, <<81>>>>, <<119982, <<83>>>>, <<119983, <<84>>>>, <<119984, <<85>>>>,
    <<119985, <<86>>>>, <<119986, <<87>>>>, <<119987, <<88>>>>, <<119988, <<89>>>>,
    <<119989, <<90>>>>, <<119990, <<97>>>>, <<119991, <<98>>>>, <<119992, <<99>>>>,
    <<119993, <<100>>>>, <<119995, <<102>>>>, <<119997, <<104>>>>, <<119998, <<105>>>>,
    <<119999, <<106>>>>, <<120000, <<107>>>>, <<120001, <<108>>>>, <<120002, <<109>>>>,
    <<120003, <<110>>>>, <<120005, <<112>>>>, <<120006, <<113>>>>, <<120007, <<114>>>>,
    <<120008, <<115>>>>, <<120009, <<116>>>>, <<120010, <<117>>>>, <<120011, <<118>>>>,
    <<120012, <<119>>>>, <<120013, <<120>>>>, <<120014, <<121>>>>, <<120015, <<122>>>>,
    <<120016, <<65>>>>, <<120017, <<66>>>>, <<120018, <<67>>>>, <<120019, <<68>>>>,
    <<120020, <<69>>>>, <<120021, <<70>>>>, <<120022, <<71>>>>, <<120023, <<72>>>>,
    <<120024, <<73>>>>, <<120025, <<74>>>>, <<120026, <<75>>>>, <<120027, <<76>>>>,
    <<120028, <<77>>>>, <<120029, <<78>>>>, <<120030, <<79>>>>, <<120031, <<80>>>>,
    <<120032, <<81>>>>, <<120033, <<82>>>>, <<120034, <<83>>>>, <<120035, <<84>>>>,
    <<120036, <<85>>>>, <<120037, <<86>>>>, <<120038, <<87>>>>, <<120039, <<88>>>>,
    <<120040, <<89>>>>, <<120041, <<90>>>>, <<120042, <<97>>>>, <<120043, <<98>>>>,
    <<120044, <<99>>>>, <<120045, <<100>>>>, <<120046, <<101>>>>, <<120047, <<102>>>>,
    <<120048, <<103>>>>, <<120049, <<104>>>>, <<120050, <<105>>>>, <<120051, <<106>>>>,
    <<120052, <<107>>>>, <<120053, <<108>>>>, <<120054, <<109>>>>, <<120055, <<110>>>>,
    <<120056, <<111>>>>, <<120057, <<112>>>>, <<120058, <<113>>>>, <<120059, <<114>>>>,
    <<120060, <<115>>>>, <<120061, <<116>>>>, <<120062, <<117>>>>, <<120063, <<118>>>>,
    <<120064, <<119>>>>, <<120065, <<120>>>>, <<120066, <<121>>>>, <<120067, <<122>>>>,
    <<120068, <<65>>>>, <<120069, <<66>>>>, <<120071, <<68>>>>, <<120072, <<69>>>>,
    <<120073, <<70>>>>, <<120074, <<71>>>>, <<120077, <<74>>>>, <<120078, <<75>>>>,
    <<120079, <<76>>>>, <<120080, <<77>>>>, <<120081, <<78>>>>, <<120082, <<79>>>>,
    <<120083, <<80>>>>, <<120084, <<81>>>>, <<120086, <<83>>>>, <<120087, <<84>>>>,
    <<120088, <<85>>>>, <<120089, <<86>>>>, <<120090, <<87>>>>, <<120091, <<88>>>>,
    <<120092, <<89>>>>, <<120094, <<97>>>>, <<120095, <<98>>>>, <<120096, <<99>>>>,
    <<120097, <<100>>>>, <<120098, <<101>>>>, <<120099, <<102>>>>, <<120100, <<103>>>>,
    <<120101, <<104>>>>, <<120102, <<105>>>>, <<120103, <<106>>>>, <<120104, <<107>>>>,
    <<120105, <<108>>>>, <<120106, <<109>>>>, <<120107, <<110>>>>, <<120108, <<111>>>>,
    <<120109, <<112>>>>, <<120110, <<113>>>>, <<120111, <<114>>>>, <<120112, <<115>>>>,
    <<120113, <<116>>>>, <<120114, <<117>>>>, <<120115, <<118>>>>, <<120116, <<119>>>>,
    <<120117, <<120>>>>, <<120118, <<121>>>>, <<120119, <<122>>>>, <<120120, <<65>>>>,
    <<120121, <<66>>>>, <<120123, <<68>>>>, <<120124, <<69>>>>, <<120125, <<70>>>>,
    <<120126, <<71>>>>, <<120128, <<73>>>>, <<120129, <<74>>>>, <<120130, <<75>>>>,
    <<120131, <<76>>>>, <<120132, <<77>>>>, <<120134, <<79>>>>, <<120138, <<83>>>>,
    <<120139, <<84>>>>, <<120140, <<85>>>>, <<120141, <<86>>>>, <<120142, <<87>>>>,
    <<120143, <<88>>>>, <<120144, <<89>>>>, <<120146, <<97>>>>, <<120147, <<98>>>>,
    <<120148, <<99>>>>, <<120149, <<100>>>>, <<120150, <<101>>>>, <<120151, <<102>>>>,
    <<120152, <<103>>>>, <<120153, <<104>>>>, <<120154, <<105>>>>, <<120155, <<106>>>>,
    <<120156, <<107>>>>, <<120157, <<108>>>>, <<120158, <<109>>>>, <<120159, <<110>>>>,
    <<120160, <<111>>>>, <<120161, <<112>>>>, <<120162, <<113>>>>, <<120163, <<114>>>>,
    <<120164, <<115>>>>, <<120165, <<116>>>>, <<120166, <<117>>>>, <<120167, <<118>>>>,
    <<120168, <<119>>>>, <<120169, <<120>>>>, <<120170, <<121>>>>, <<120171, <<122>>>>,
    <<120172, <<65>>>>, <<120173, <<66>>>>, <<120174, <<67>>>>, <<120175, <<68>>>>,
    <<120176, <<69>>>>, <<120177, <<70>>>>, <<120178, <<71>>>>, <<120179, <<72>>>>,
    <<120180, <<73>>>>, <<120181, <<74>>>>, <<120182, <<75>>>>, <<120183, <<76>>>>,
    <<120184, <<77>>>>, <<120185, <<78>>>>, <<120186, <<79>>>>, <<120187, <<80>>>>,
    <<120188, <<81>>>>, <<120189, <<82>>>>, <<120190, <<83>>>>, <<120191, <<84>>>>,
    <<120192, <<85>>>>, <<120193, <<86>>>>, <<120194, <<87>>>>, <<120195, <<88>>>>,
    <<120196, <<89>>>>, <<120197, <<90>>>>, <<120198, <<97>>>>, <<120199, <<98>>>>,
    <<120200, <<99>>>>, <<120201, <<100>>>>, <<120202, <<101>>>>, <<120203, <<102>>>>,
    <<120204, <<103>>>>, <<120205, <<104>>>>, <<120206, <<105>>>>, <<120207, <<106>>>>,
    <<120208, <<107>>>>, <<120209, <<108>>>>, <<120210, <<109>>>>, <<120211, <<110>>>>,
    <<120212, <<111>>>>, <<120213, <<112>>>>, <<120214, <<113>>>>, <<120215, <<114>>>>,
    <<120216, <<115>>>>, <<120217, <<116>>>>, <<120218, <<117>>>>, <<120219, <<118>>>>,
    <<120220, <<119>>>>, <<120221, <<120>>>>, <<120222, <<121>>>>, <<120223, <<122>>>>,
    <<120224, <<65>>>>, <<120225, <<66>>>>, <<120226, <<67>>>>, <<120227, <<68>>>>,
    <<120228, <<69>>>>, <<120229, <<70>>>>, <<120230, <<71>>>>, <<120231, <<72>>>>,
    <<120232, <<73>>>>, <<120233, <<74>>>>, <<120234, <<75>>>>, <<120235, <<76>>>>,
    <<120236, <<77>>>>, <<120237, <<78>>>>, <<120238, <<79>>>>, <<120239, <<80>>>>,
    <<120240, <<81>>>>, <<120241, <<82>>>>, <<120242, <<83>>>>, <<120243, <<84>>>>,
    <<120244, <<85>>>>, <<120245, <<86>>>>, <<120246, <<87>>>>, <<120247, <<88>>>>,
    <<120248, <<89>>>>, <<120249, <<90>>>>, <<120250, <<97>>>>, <<120251, <<98>>>>,
    <<120252, <<99>>>>, <<120253, <<100>>>>, <<120254, <<101>>>>, <<120255, <<102>>>>,
    <<120256, <<103>>>>, <<120257, <<104>>>>, <<120258, <<105>>>>, <<120259, <<106>>>>,
    <<120260, <<107>>>>, <<120261, <<108>>>>, <<120262, <<109>>>>, <<120263, <<110>>>>,
    <<120264, <<111>>>>, <<120265, <<112>>>>, <<120266, <<113>>>>, <<120267, <<114>>>>,
    <<120268, <<115>>>>, <<120269, <<116>>>>, <<120270, <<117>>>>, <<120271, <<118>>>>,
    <<120272, <<119>>>>, <<120273, <<120>>>>, <<120274, <<121>>>>, <<120275, <<122>>>>,
    <<120276, <<65>>>>, <<120277, <<66>>>>, <<120278, <<67>>>>, <<120279, <<68>>>>,
    <<120280, <<69>>>>, <<120281, <<70>>>>, <<120282, <<71>>>>, <<120283, <<72>>>>,
    <<120284, <<73>>>>, <<120285, <<74>>>>, <<120286, <<75>>>>, <<120287, <<76>>>>,
    <<120288, <<77>>>>, <<120289, <<78>>>>, <<120290, <<79>>>>, <<120291, <<80>>>>,
    <<120292, <<81>>>>, <<120293, <<82>>>>, <<120294, <<83>>>>, <<120295, <<84>>>>,
    <<120296, <<85>>>>, <<120297, <<86>>>>, <<120298, <<87>>>>, <<120299, <<88>>>>,
    <<120300, <<89>>>>, <<120301, <<90>>>>, <<120302, <<97>>>>, <<120303, <<98>>>>,
    <<120304, <<99>>>>, <<120305, <<100>>>>, <<120306, <<101>>>>, <<120307, <<102>>>>,
    <<120308, <<103>>>>, <<120309, <<104>>>>, <<120310, <<105>>>>, <<120311, <<106>>>>,
    <<120312, <<107>>>>, <<120313, <<108>>>>, <<120314, <<109>>>>, <<120315, <<110>>>>,
    <<120316, <<111>>>>, <<120317, <<112>>>>, <<120318, <<113>>>>, <<120319, <<114>>>>,
    <<120320, <<115>>>>, <<120321, <<116>>>>, <<120322, <<117>>>>, <<120323, <<118>>>>,
    <<120324, <<119>>>>, <<120325, <<120>>>>, <<120326, <<121>>>>, <<120327, <<122>>>>,
    <<120328, <<65>>>>, <<120329, <<66>>>>, <<120330, <<67>>>>, <<120331, <<68>>>>,
    <<120332, <<69>>>>, <<120333, <<70>>>>, <<120334, <<71>>>>, <<120335, <<72>>>>,
    <<120336, <<73>>>>, <<120337, <<74>>>>, <<120338, <<75>>>>, <<120339, <<76>>>>,
    <<120340, <<77>>>>, <<120341, <<78>>>>, <<120342, <<79>>>>, <<120343, <<80>>>>,
    <<120344, <<81>>>>, <<120345, <<82>>>>, <<120346, <<83>>>>, <<120347, <<84>>>>,
    <<120348, <<85>>>>, <<120349, <<86>>>>, <<120350, <<87>>>>, <<120351, <<88>>>>,
    <<120352, <<89>>>>, <<120353, <<90>>>>, <<120354, <<97>>>>, <<120355, <<98>>>>,
    <<120356, <<99>>>>, <<120357, <<100>>>>, <<120358, <<101>>>>, <<120359, <<102>>>>,
    <<120360, <<103>>>>, <<120361, <<104>>>>, <<120362, <<105>>>>, <<120363, <<106>>>>,
    <<120364, <<107>>>>, <<120365, <<108>>>>, <<120366, <<109>>>>, <<120367, <<110>>>>,
    <<120368, <<111>>>>, <<120369, <<112>>>>, <<120370, <<113>>>>, <<120371, <<114>>>>,
    <<120372, <<115>>>>, <<120373, <<116>>>>, <<120374, <<117>>>>, <<120375, <<118>>>>,
    <<120376, <<119>>>>, <<120377, <<120>>>>, <<120378, <<121>>>>, <<120379, <<122>>>>,
    <<120380, <<65>>>>, <<120381, <<66>>>>, <<120382, <<67>>>>, <<120383, <<68>>>>,
    <<120384, <<69>>>>, <<120385, <<70>>>>, <<120386, <<71>>>>, <<120387, <<72>>>>,
    <<120388, <<73>>>>, <<120389, <<74>>>>, <<120390, <<75>>>>, <<120391, <<76>>>>,
    <<120392, <<77>>>>, <<120393, <<78>>>>, <<120394, <<79>>>>, <<120395, <<80>>>>,
    <<120396, <<81>>>>, <<120397, <<82>>>>, <<120398, <<83>>>>, <<120399, <<84>>>>,
    <<120400, <<85>>>>, <<120401, <<86>>>>, <<120402, <<87>>>>, <<120403, <<88>>>>,
    <<120404, <<89>>>>, <<120405, <<90>>>>, <<120406, <<97>>>>, <<120407, <<98>>>>,
    <<120408, <<99>>>>, <<120409, <<100>>>>, <<120410, <<101>>>>, <<120411, <<102>>>>,
    <<120412, <<103>>>>, <<120413, <<104>>>>, <<120414, <<105>>>>, <<120415, <<106>>>>,
    <<120416, <<107>>>>, <<120417, <<108>>>>, <<120418, <<109>>>>, <<120419, <<110>>>>,
    <<120420, <<111>>>>, <<120421, <<112>>>>, <<120422, <<113>>>>, <<120423, <<114>>>>,
    <<120424, <<115>>>>, <<120425, <<116>>>>, <<120426, <<117>>>>, <<120427, <<118>>>>,
    <<120428, <<119>>>>, <<120429, <<120>>>>, <<120430, <<121>>>>, <<120431, <<122>>>>,
    <<120432, <<65>>>>, <<120433, <<66>>>>, <<120434, <<67>>>>, <<120435, <<68>>>>,
    <<120436, <<69>>>>, <<120437, <<70>>>>, <<120438, <<71>>>>, <<120439, <<72>>>>,
    <<120440, <<73>>>>, <<120441, <<74>>>>, <<120442, <<75>>>>, <<120443, <<76>>>>,
    <<120444, <<77>>>>, <<120445, <<78>>>>, <<120446, <<79>>>>, <<120447, <<80>>>>,
    <<120448, <<81>>>>, <<120449, <<82>>>>, <<120450, <<83>>>>, <<120451, <<84>>>>,
    <<120452, <<85>>>>, <<120453, <<86>>>>, <<120454, <<87>>>>, <<120455, <<88>>>>,
    <<120456, <<89>>>>, <<120457, <<90>>>>, <<120458, <<97>>>>, <<120459, <<98>>>>,
    <<120460, <<99>>>>, <<120461, <<100>>>>, <<120462, <<101>>>>, <<120463, <<102>>>>,
    <<120464, <<103>>>>, <<120465, <<104>>>>, <<120466, <<105>>>>, <<120467, <<106>>>>,
    <<120468, <<107>>>>, <<120469, <<108>>>>, <<120470, <<109>>>>, <<120471, <<110>>>>,
    <<120472, <<111>>>>, <<120473, <<112>>>>, <<120474, <<113>>>>, <<120475, <<114>>>>,
    <<120476, <<115>>>>, <<120477, <<116>>>>, <<120478, <<117>>>>, <<120479, <<118>>>>,
    <<120480, <<119>>>>, <<120481, <<120>>>>, <<120482, <<121>>>>, <<120483, <<122>>>>,
    <<120484, <<305>>>>, <<120485, <<567>>>>, <<120488, <<913>>>>, <<120489, <<914>>>>,
    <<120490, <<915>>>>, <<120491, <<916>>>>, <<120492, <<917>>>>, <<120493, <<918>>>>,
    <<120494, <<919>>>>, <<120495, <<920>>>>, <<120496, <<921>>>>, <<120497, <<922>>>>,
    <<120498, <<923>>>>, <<120499, <<924>>>>, <<120500, <<925>>>>, <<120501, <<926>>>>,
    <<120502, <<927>>>>, <<120503, <<928>>>>, <<120504, <<929>>>>, <<120505, <<920>>>>,
    <<120506, <<931>>>>, <<120507, <<932>>>>, <<120508, <<933>>>>, <<120509, <<934>>>>,
    <<120510, <<935>>>>, <<120511, <<936>>>>, <<120512, <<937>>>>, <<120513, <<8711>>>>,
    <<120514, <<945>>>>, <<120515, <<946>>>>, <<120516, <<947>>>>, <<120517, <<948>>>>,
    <<120518, <<949>>>>, <<120519, <<950>>>>, <<120520, <<951>>>>, <<120521, <<952>>>>,
    <<120522, <<953>>>>, <<120523, <<954>>>>, <<120524, <<955>>>>, <<120525, <<956>>>>,
    <<120526, <<957>>>>, <<120527, <<958>>>>, <<120528, <<959>>>>, <<120529, <<960>>>>,
    <<120530, <<961>>>>, <<120531, <<962>>>>, <<120532, <<963>>>>, <<120533, <<964>>>>,
    <<120534, <<965>>>>, <<120535, <<966>>>>, <<120536, <<967>>>>, <<120537, <<968>>>>,
    <<120538, <<969>>>>, <<120539, <<8706>>>>, <<120540, <<949>>>>, <<120541, <<952>>>>,
    <<120542, <<954>>>>, <<120543, <<966>>>>, <<120544, <<961>>>>, <<120545, <<960>>>>,
    <<120546, <<913>>>>, <<120547, <<914>>>>, <<120548, <<915>>>>, <<120549, <<916>>>>,
    <<120550, <<917>>>>, <<120551, <<918>>>>, <<120552, <<919>>>>, <<120553, <<920>>>>,
    <<120554, <<921>>>>, <<120555, <<922>>>>, <<120556, <<923>>>>, <<120557, <<924>>>>,
    <<120558, <<925>>>>, <<120559, <<926>>>>, <<120560, <<927>>>>, <<120561, <<928>>>>,
    <<120562, <<929>>>>, <<120563, <<920>>>>, <<120564, <<931>>>>, <<120565, <<932>>>>,
    <<120566, <<933>>>>, <<120567, <<934>>>>, <<120568, <<935>>>>, <<120569, <<936>>>>,
    <<120570, <<937>>>>, <<120571, <<8711>>>>, <<120572, <<945>>>>, <<120573, <<946>>>>,
    <<120574, <<947>>>>, <<120575, <<948>>>>, <<120576, <<949>>>>, <<120577, <<950>>>>,
    <<120578, <<951>>>>, <<120579, <<952>>>>, <<120580, <<953>>>>, <<120581, <<954>>>>,
    <<120582, <<955>>>>, <<120583, <<956>>>>, <<120584, <<957>>>>, <<120585, <<958>>>>,
    <<120586, <<959>>>>, <<120587, <<960>>>>, <<120588, <<961>>>>, <<120589, <<962>>>>,
    <<120590, <<963>>>>, <<120591, <<964>>>>, <<120592, <<965>>>>, <<120593, <<966>>>>,
    <<120594, <<967>>>>, <<120595, <<968>>>>, <<120596, <<969>>>>, <<120597, <<8706>>>>,
    <<120598, <<949>>>>, <<120599, <<952>>>>, <<120600, <<954>>>>, <<120601, <<966>>>>,
    <<120602, <<961>>>>, <<120603, <<960>>>>, <<120604, <<913>>>>, <<120605, <<914>>>>,
    <<120606, <<915>>>>, <<120607, <<916>>>>, <<120608, <<917>>>>, <<120609, <<918>>>>,
    <<120610, <<919>>>>, <<120611, <<920>>>>, <<120612, <<921>>>>, <<120613, <<922>>>>,
    <<120614, <<923>>>>, <<120615, <<924>>>>, <<120616, <<925>>>>, <<120617, <<926>>>>,
    <<120618, <<927>>>>, <<120619, <<928>>>>, <<120620, <<929>>>>, <<120621, <<920>>>>,
    <<120622, <<931>>>>, <<120623, <<932>>>>, <<120624, <<933>>>>, <<120625, <<934>>>>,
    <<120626, <<935>>>>, <<120627, <<936>>>>, <<120628, <<937>>>>, <<120629, <<8711>>>>,
    <<120630, <<945>>>>, <<120631, <<946>>>>, <<120632, <<947>>>>, <<120633, <<948>>>>,
    <<120634, <<949>>>>, <<120635, <<950>>>>, <<120636, <<951>>>>, <<120637, <<952>>>>,
    <<120638, <<953>>>>, <<120639, <<954>>>>, <<120640, <<955>>>>, <<120641, <<956>>>>,
    <<120642, <<957>>>>, <<120643, <<958>>>>, <<120644, <<959>>>>, <<120645, <<960>>>>,
    <<120646, <<961>>>>, <<120647, <<962>>>>, <<120648, <<963>>>>, <<120649, <<964>>>>,
    <<120650, <<965>>>>, <<120651, <<966>>>>, <<120652, <<967>>>>, <<120653, <<968>>>>,
    <<120654, <<969>>>>, <<120655, <<8706>>>>, <<120656, <<949>>>>, <<120657, <<952>>>>,
    <<120658, <<954>>>>, <<120659, <<966>>>>, <<120660, <<961>>>>, <<120661, <<960>>>>,
    <<120662, <<913>>>>, <<120663, <<914>>>>, <<120664, <<915>>>>, <<120665, <<916>>>>,
    <<120666, <<917>>>>, <<120667, <<918>>>>, <<120668, <<919>>>>, <<120669, <<920>>>>,
    <<120670, <<921>>>>, <<120671, <<922>>>>, <<120672, <<923>>>>, <<120673, <<924>>>>,
    <<120674, <<925>>>>, <<120675, <<926>>>>, <<120676, <<927>>>>, <<120677, <<928>>>>,
    <<120678, <<929>>>>, <<120679, <<920>>>>, <<120680, <<931>>>>, <<120681, <<932>>>>,
    <<120682, <<933>>>>, <<120683, <<934>>>>, <<120684, <<935>>>>, <<120685, <<936>>>>,
    <<120686, <<937>>>>, <<120687, <<8711>>>>, <<120688, <<945>>>>, <<120689, <<946>>>>,
    <<120690, <<947>>>>, <<120691, <<948>>>>, <<120692, <<949>>>>, <<120693, <<950>>>>,
    <<120694, <<951>>>>, <<120695, <<952>>>>, <<120696, <<953>>>>, <<120697, <<954>>>>,
    <<120698, <<955>>>>, <<120699, <<956>>>>, <<120700, <<957>>>>, <<120701, <<958>>>>,
    <<120702, <<959>>>>, <<120703, <<960>>>>, <<120704, <<961>>>>, <<120705, <<962>>>>,
    <<120706, <<963>>>>, <<120707, <<964>>>>, <<120708, <<965>>>>, <<120709, <<966>>>>,
    <<120710, <<967>>>>, <<120711, <<968>>>>, <<120712, <<969>>>>, <<120713, <<8706>>>>,
    <<120714, <<949>>>>, <<120715, <<952>>>>, <<120716, <<954>>>>, <<120717, <<966>>>>,
    <<120718, <<961>>>>, <<120719, <<960>>>>, <<120720, <<913>>>>, <<120721, <<914>>>>,
    <<120722, <<915>>>>, <<120723, <<916>>>>, <<120724, <<917>>>>, <<120725, <<918>>>>,
    <<120726, <<919>>>>, <<120727, <<920>>>>, <<120728, <<921>>>>, <<120729, <<922>>>>,
    <<120730, <<923>>>>, <<120731, <<924>>>>, <<120732, <<925>>>>, <<120733, <<926>>>>,
    <<120734, <<927>>>>, <<120735, <<928>>>>, <<120736, <<929>>>>, <<120737, <<920>>>>,
    <<120738, <<931>>>>, <<120739, <<932>>>>, <<120740, <<933>>>>, <<120741, <<934>>>>,
    <<120742, <<935>>>>, <<120743, <<936>>>>, <<120744, <<937>>>>, <<120745, <<8711>>>>,
    <<120746, <<945>>>>, <<120747, <<946>>>>, <<120748, <<947>>>>, <<120749, <<948>>>>,
    <<120750, <<949>>>>, <<120751, <<950>>>>, <<120752, <<951>>>>, <<120753, <<952>>>>,
    <<120754, <<953>>>>, <<120755, <<954>>>>, <<120756, <<955>>>>, <<120757, <<956>>>>,
    <<120758, <<957>>>>, <<120759, <<958>>>>, <<120760, <<959>>>>, <<120761, <<960>>>>,
    <<120762, <<961>>>>, <<120763, <<962>>>>, <<120764, <<963>>>>, <<120765, <<964>>>>,
    <<120766, <<965>>>>, <<120767, <<966>>>>, <<120768, <<967>>>>, <<120769, <<968>>>>,
    <<120770, <<969>>>>, <<120771, <<8706>>>>, <<120772, <<949>>>>, <<120773, <<952>>>>,
    <<120774, <<954>>>>, <<120775, <<966>>>>, <<120776, <<961>>>>, <<120777, <<960>>>>,
    <<120778, <<988>>>>, <<120779, <<989>>>>, <<120782, <<48>>>>, <<120783, <<49>>>>,
    <<120784, <<50>>>>, <<120785, <<51>>>>, <<120786, <<52>>>>, <<120787, <<53>>>>,
    <<120788, <<54>>>>, <<120789, <<55>>>>, <<120790, <<56>>>>, <<120791, <<57>>>>,
    <<120792, <<48>>>>, <<120793, <<49>>>>, <<120794, <<50>>>>, <<120795, <<51>>>>,
    <<120796, <<52>>>>, <<120797, <<53>>>>, <<120798, <<54>>>>, <<120799, <<55>>>>,
    <<120800, <<56>>>>, <<120801, <<57>>>>, <<120802, <<48>>>>, <<120803, <<49>>>>,
    <<120804, <<50>>>>, <<120805, <<51>>>>, <<120806, <<52>>>>, <<120807, <<53>>>>,
    <<120808, <<54>>>>, <<120809, <<55>>>>, <<120810, <<56>>>>, <<120811, <<57>>>>,
    <<120812, <<48>>>>, <<120813, <<49>>>>, <<120814, <<50>>>>, <<120815, <<51>>>>,
    <<120816, <<52>>>>, <<120817, <<53>>>>, <<120818, <<54>>>>, <<120819, <<55>>>>,
    <<120820, <<56>>>>, <<120821, <<57>>>>, <<120822, <<48>>>>, <<120823, <<49>>>>,
    <<120824, <<50>>>>, <<120825, <<51>>>>, <<120826, <<52>>>>, <<120827, <<53>>>>,
    <<120828, <<54>>>>, <<120829, <<55>>>>, <<120830, <<56>>>>, <<120831, <<57>>>>,
    <<126464, <<1575>>>>, <<126465, <<1576>>>>, <<126466, <<1580>>>>, <<126467, <<1583>>>>,
    <<126469, <<1608>>>>, <<126470, <<1586>>>>, <<126471, <<1581>>>>, <<126472, <<1591>>>>,
    <<126473, <<1610>>>>, <<126474, <<1603>>>>, <<126475, <<1604>>>>, <<126476, <<1605>>>>,
    <<126477, <<1606>>>>, <<126478, <<1587>>>>, <<126479, <<1593>>>>, <<126480, <<1601>>>>,
    <<126481, <<1589>>>>, <<126482, <<1602>>>>, <<126483, <<1585>>>>, <<126484, <<1588>>>>,
    <<126485, <<1578>>>>, <<126486, <<1579>>>>, <<126487, <<1582>>>>, <<126488, <<1584>>>>,
    <<126489, <<1590>>>>, <<126490, <<1592>>>>, <<126491, <<1594>>>>, <<126492, <<1646>>>>,
    <<126493, <<1722>>>>, <<126494, <<1697>>>>, <<126495, <<1647>>>>, <<126497, <<1576>>>>,
    <<126498, <<1580>>>>, <<126500, <<1607>>>>, <<126503, <<1581>>>>, <<126505, <<1610>>>>,
    <<126506, <<1603>>>>, <<126507, <<1604>>>>, <<126508, <<1605>>>>, <<126509, <<1606>>>>,
    <<126510, <<1587>>>>, <<126511, <<1593>>>>, <<126512, <<1601>>>>, <<126513, <<1589>>>>,
    <<126514, <<1602>>>>, <<126516, <<1588>>>>, <<126517, <<1578>>>>, <<126518, <<1579>>>>,
    <<126519, <<1582>>>>, <<126521, <<1590>>>>, <<126523, <<1594>>>>, <<126530, <<1580>>>>,
    <<126535, <<1581>>>>, <<126537, <<1610>>>>, <<126539, <<1604>>>>, <<126541, <<1606>>>>,
    <<126542, <<1587>>>>, <<126543, <<1593>>>>, <<126545, <<1589>>>>, <<126546, <<1602>>>>,
    <<126548, <<1588>>>>, <<126551, <<1582>>>>, <<126553, <<1590>>>>, <<126555, <<1594>>>>,
    <<126557, <<1722>>>>, <<126559, <<1647>>>>, <<126561, <<1576>>>>, <<126562, <<1580>>>>,
    <<126564, <<1607>>>>, <<126567, <<1581>>>>, <<126568, <<1591>>>>, <<126569, <<1610>>>>,
    <<126570, <<1603>>>>, <<126572, <<1605>>>>, <<126573, <<1606>>>>, <<126574, <<1587>>>>,
    <<126575, <<1593>>>>, <<126576, <<1601>>>>, <<126577, <<1589>>>>, <<126578, <<1602>>>>,
    <<126580, <<1588>>>>, <<126581, <<1578>>>>, <<126582, <<1579>>>>, <<126583, <<1582>>>>,
    <<126585, <<1590>>>>, <<126586, <<1592>>>>, <<126587, <<1594>>>>, <<126588, <<1646>>>>,
    <<126590, <<1697>>>>, <<126592, <<1575>>>>, <<126593, <<1576>>>>, <<126594, <<1580>>>>,
    <<126595, <<1583>>>>, <<126596, <<1607>>>>, <<126597, <<1608>>>>, <<126598, <<1586>>>>,
    <<126599, <<1581>>>>, <<126600, <<1591>>>>, <<126601, <<1610>>>>, <<126603, <<1604>>>>,
    <<126604, <<1605>>>>, <<126605, <<1606>>>>, <<126606, <<1587>>>>, <<126607, <<1593>>>>,
    <<126608, <<1601>>>>, <<126609, <<1589>>>>, <<126610, <<1602>>>>, <<126611, <<1585>>>>,
    <<126612, <<1588>>>>, <<126613, <<1578>>>>, <<126614, <<1579>>>>, <<126615, <<1582>>>>,
    <<126616, <<1584>>>>, <<126617, <<1590>>>>, <<126618, <<1592>>>>, <<126619, <<1594>>>>,
    <<126625, <<1576>>>>, <<126626, <<1580>>>>, <<126627, <<1583>>>>, <<126629, <<1608>>>>,
    <<126630, <<1586>>>>, <<126631, <<1581>>>>, <<126632, <<1591>>>>, <<126633, <<1610>>>>,
    <<126635, <<1604>>>>, <<126636, <<1605>>>>, <<126637, <<1606>>>>, <<126638, <<1587>>>>,
    <<126639, <<1593>>>>, <<126640, <<1601>>>>, <<126641, <<1589>>>>, <<126642, <<1602>>>>,
    <<126643, <<1585>>>>, <<126644, <<1588>>>>, <<126645, <<1578>>>>, <<126646, <<1579>>>>,
    <<126647, <<1582>>>>, <<126648, <<1584>>>>, <<126649, <<1590>>>>, <<126650, <<1592>>>>,
    <<126651, <<1594>>>>, <<127232, <<48, 46>>>>, <<127233, <<48, 44>>>>,
    <<127234, <<49, 44>>>>, <<127235, <<50, 44>>>>, <<127236, <<51, 44>>>>,
    <<127237, <<52, 44>>>>, <<127238, <<53, 44>>>>, <<127239, <<54, 44>>>>,
    <<127240, <<55, 44>>>>, <<127241, <<56, 44>>>>, <<127242, <<57, 44>>>>,
    <<127248, <<40, 65, 41>>>>, <<127249, <<40, 66, 41>>>>, <<127250, <<40, 67, 41>>>>,
    <<127251, <<40, 68, 41>>>>, <<127252, <<40, 69, 41>>>>, <<127253, <<40, 70, 41>>>>,
    <<127254, <<40, 71, 41>>>>, <<127255, <<40, 72, 41>>>>, <<127256, <<40, 73, 41>>>>,
    <<127257, <<40, 74, 41>>>>, <<127258, <<40, 75, 41>>>>, <<127259, <<40, 76, 41>>>>,
    <<127260, <<40, 77, 41>>>>, <<127261, <<40, 78, 41>>>>, <<127262, <<40, 79, 41>>>>,
    <<127263, <<40, 80, 41>>>>, <<127264, <<40, 81, 41>>>>, <<127265, <<40, 82, 41>>>>,
    <<127266, <<40, 83, 41>>>>, <<127267, <<40, 84, 41>>>>, <<127268, <<40, 85, 41>>>>,
    <<127269, <<40, 86, 41>>>>, <<127270, <<40, 87, 41>>>>, <<127271, <<40, 88, 41>>>>,
    <<127272, <<40, 89, 41>>>>, <<127273, <<40, 90, 41>>>>, <<127274, <<12308, 83, 12309>>>>,
    <<127275, <<67>>>>, <<127276, <<82>>>>, <<127277, <<67, 68>>>>, <<127278, <<87, 90>>>>,
    <<127280, <<65>>>>, <<127281, <<66>>>>, <<127282, <<67>>>>, <<127283, <<68>>>>,
    <<127284, <<69>>>>, <<127285, <<70>>>>, <<127286, <<71>>>>, <<127287, <<72>>>>,
    <<127288, <<73>>>>, <<127289, <<74>>>>, <<127290, <<75>>>>, <<127291, <<76>>>>,
    <<127292, <<77>>>>, <<127293, <<78>>>>, <<127294, <<79>>>>, <<127295, <<80>>>>,
    <<127296, <<81>>>>, <<127297, <<82>>>>, <<127298, <<83>>>>, <<127299, <<84>>>>,
    <<127300, <<85>>>>, <<127301, <<86>>>>, <<127302, <<87>>>>, <<127303, <<88>>>>,
    <<127304, <<89>>>>, <<127305, <<90>>>>, <<127306, <<72, 86>>>>, <<127307, <<77, 86>>>>,
    <<127308, <<83, 68>>>>, <<127309, <<83, 83>>>>, <<127310, <<80, 80, 86>>>>,
    <<127311, <<87, 67>>>>, <<127338, <<77, 67>>>>, <<127339, <<77, 68>>>>,
    <<127340, <<77, 82>>>>, <<127376, <<68, 74>>>>, <<127488, <<12411, 12363>>>>,
    <<127489, <<12467, 12467>>>>, <<127490, <<12469>>>>, <<127504, <<25163>>>>,
    <<127505, <<23383>>>>, <<127506, <<21452>>>>, <<127507, <<12486, 12441>>>>,
    <<127508, <<20108>>>>, <<127509, <<22810>>>>, <<127510, <<35299>>>>, <<127511, <<22825>>>>,
    <<127512, <<20132>>>>, <<127513, <<26144>>>>, <<127514, <<28961>>>>, <<127515, <<26009>>>>,
    <<127516, <<21069>>>>, <<127517, <<24460>>>>, <<127518, <<20877>>>>, <<127519, <<26032>>>>,
    <<127520, <<21021>>>>, <<127521, <<32066>>>>, <<127522, <<29983>>>>, <<127523, <<36009>>>>,
    <<127524, <<22768>>>>, <<127525, <<21561>>>>, <<127526, <<28436>>>>, <<127527, <<25237>>>>,
    <<127528, <<25429>>>>, <<127529, <<19968>>>>, <<127530, <<19977>>>>, <<127531, <<36938>>>>,
    <<127532, <<24038>>>>, <<127533, <<20013>>>>, <<127534, <<21491>>>>, <<127535, <<25351>>>>,
    <<127536, <<36208>>>>, <<127537, <<25171>>>>, <<127538, <<31105>>>>, <<127539, <<31354>>>>,
    <<127540, <<21512>>>>, <<127541, <<28288>>>>, <<127542, <<26377>>>>, <<127543, <<26376>>>>,
    <<127544, <<30003>>>>, <<127545, <<21106>>>>, <<127546, <<21942>>>>, <<127547, <<37197>>>>,
    <<127552, <<12308, 26412, 12309>>>>, <<127553, <<12308, 19977, 12309>>>>,
    <<127554, <<12308, 20108, 12309>>>>, <<127555, <<12308, 23433, 12309>>>>,
    <<127556, <<12308, 28857, 12309>>>>, <<127557, <<12308, 25171, 12309>>>>,
    <<127558, <<12308, 30423, 12309>>>>, <<127559, <<12308, 21213, 12309>>>>,
    <<127560, <<12308, 25943, 12309>>>>, <<127568, <<24471>>>>, <<127569, <<21487>>>>,
    <<130032, <<48>>>>, <<130033, <<49>>>>, <<130034, <<50>>>>, <<130035, <<51>>>>,
    <<130036, <<52>>>>, <<130037, <<53>>>>, <<130038, <<54>>>>, <<130039, <<55>>>>,
    <<130040, <<56>>>>, <<130041, <<57>>>>, <<194560, <<20029>>>>, <<194561, <<20024>>>>,
    <<194562, <<20033>>>>, <<194563, <<131362>>>>, <<194564, <<20320>>>>,
    <<194565, <<20398>>>>, <<194566, <<20411>>>>, <<194567, <<20482>>>>, <<194568, <<20602>>>>,
    <<194569, <<20633>>>>, <<194570, <<20711>>>>, <<194571, <<20687>>>>, <<194572, <<13470>>>>,
    <<194573, <<132666>>>>, <<194574, <<20813>>>>, <<194575, <<20820>>>>,
    <<194576, <<20836>>>>, <<194577, <<20855>>>>, <<194578, <<132380>>>>,
    <<194579, <<13497>>>>, <<194580, <<20839>>>>, <<194581, <<20877>>>>,
    <<194582, <<132427>>>>, <<194583, <<20887>>>>, <<194584, <<20900>>>>,
    <<194585, <<20172>>>>, <<194586, <<20908>>>>, <<194587, <<20917>>>>,
    <<194588, <<168415>>>>, <<194589, <<20981>>>>, <<194590, <<20995>>>>,
    <<194591, <<13535>>>>, <<194592, <<21051>>>>, <<194593, <<21062>>>>, <<194594, <<21106>>>>,
    <<194595, <<21111>>>>, <<194596, <<13589>>>>, <<194597, <<21191>>>>, <<194598, <<21193>>>>,
    <<194599, <<21220>>>>, <<194600, <<21242>>>>, <<194601, <<21253>>>>, <<194602, <<21254>>>>,
    <<194603, <<21271>>>>, <<194604, <<21321>>>>, <<194605, <<21329>>>>, <<194606, <<21338>>>>,
    <<194607, <<21363>>>>, <<194608, <<21373>>>>, <<194609, <<21375>>>>, <<194610, <<21375>>>>,
    <<194611, <<21375>>>>, <<194612, <<133676>>>>, <<194613, <<28784>>>>,
    <<194614, <<21450>>>>, <<194615, <<21471>>>>, <<194616, <<133987>>>>,
    <<194617, <<21483>>>>, <<194618, <<21489>>>>, <<194619, <<21510>>>>, <<194620, <<21662>>>>,
    <<194621, <<21560>>>>, <<194622, <<21576>>>>, <<194623, <<21608>>>>, <<194624, <<21666>>>>,
    <<194625, <<21750>>>>, <<194626, <<21776>>>>, <<194627, <<21843>>>>, <<194628, <<21859>>>>,
    <<194629, <<21892>>>>, <<194630, <<21892>>>>, <<194631, <<21913>>>>, <<194632, <<21931>>>>,
    <<194633, <<21939>>>>, <<194634, <<21954>>>>, <<194635, <<22294>>>>, <<194636, <<22022>>>>,
    <<194637, <<22295>>>>, <<194638, <<22097>>>>, <<194639, <<22132>>>>, <<194640, <<20999>>>>,
    <<194641, <<22766>>>>, <<194642, <<22478>>>>, <<194643, <<22516>>>>, <<194644, <<22541>>>>,
    <<194645, <<22411>>>>, <<194646, <<22578>>>>, <<194647, <<22577>>>>, <<194648, <<22700>>>>,
    <<194649, <<136420>>>>, <<194650, <<22770>>>>, <<194651, <<22775>>>>,
    <<194652, <<22790>>>>, <<194653, <<22810>>>>, <<194654, <<22818>>>>, <<194655, <<22882>>>>,
    <<194656, <<136872>>>>, <<194657, <<136938>>>>, <<194658, <<23020>>>>,
    <<194659, <<23067>>>>, <<194660, <<23079>>>>, <<194661, <<23000>>>>, <<194662, <<23142>>>>,
    <<194663, <<14062>>>>, <<194664, <<14076>>>>, <<194665, <<23304>>>>, <<194666, <<23358>>>>,
    <<194667, <<23358>>>>, <<194668, <<137672>>>>, <<194669, <<23491>>>>,
    <<194670, <<23512>>>>, <<194671, <<23527>>>>, <<194672, <<23539>>>>,
    <<194673, <<138008>>>>, <<194674, <<23551>>>>, <<194675, <<23558>>>>,
    <<194676, <<24403>>>>, <<194677, <<23586>>>>, <<194678, <<14209>>>>, <<194679, <<23648>>>>,
    <<194680, <<23662>>>>, <<194681, <<23744>>>>, <<194682, <<23693>>>>,
    <<194683, <<138724>>>>, <<194684, <<23875>>>>, <<194685, <<138726>>>>,
    <<194686, <<23918>>>>, <<194687, <<23915>>>>, <<194688, <<23932>>>>, <<194689, <<24033>>>>,
    <<194690, <<24034>>>>, <<194691, <<14383>>>>, <<194692, <<24061>>>>, <<194693, <<24104>>>>,
    <<194694, <<24125>>>>, <<194695, <<24169>>>>, <<194696, <<14434>>>>,
    <<194697, <<139651>>>>, <<194698, <<14460>>>>, <<194699, <<24240>>>>,
    <<194700, <<24243>>>>, <<194701, <<24246>>>>, <<194702, <<24266>>>>,
    <<194703, <<172946>>>>, <<194704, <<24318>>>>, <<194705, <<140081>>>>,
    <<194706, <<140081>>>>, <<194707, <<33281>>>>, <<194708, <<24354>>>>,
    <<194709, <<24354>>>>, <<194710, <<14535>>>>, <<194711, <<144056>>>>,
    <<194712, <<156122>>>>, <<194713, <<24418>>>>, <<194714, <<24427>>>>,
    <<194715, <<14563>>>>, <<194716, <<24474>>>>, <<194717, <<24525>>>>, <<194718, <<24535>>>>,
    <<194719, <<24569>>>>, <<194720, <<24705>>>>, <<194721, <<14650>>>>, <<194722, <<14620>>>>,
    <<194723, <<24724>>>>, <<194724, <<141012>>>>, <<194725, <<24775>>>>,
    <<194726, <<24904>>>>, <<194727, <<24908>>>>, <<194728, <<24910>>>>, <<194729, <<24908>>>>,
    <<194730, <<24954>>>>, <<194731, <<24974>>>>, <<194732, <<25010>>>>, <<194733, <<24996>>>>,
    <<194734, <<25007>>>>, <<194735, <<25054>>>>, <<194736, <<25074>>>>, <<194737, <<25078>>>>,
    <<194738, <<25104>>>>, <<194739, <<25115>>>>, <<194740, <<25181>>>>, <<194741, <<25265>>>>,
    <<194742, <<25300>>>>, <<194743, <<25424>>>>, <<194744, <<142092>>>>,
    <<194745, <<25405>>>>, <<194746, <<25340>>>>, <<194747, <<25448>>>>, <<194748, <<25475>>>>,
    <<194749, <<25572>>>>, <<194750, <<142321>>>>, <<194751, <<25634>>>>,
    <<194752, <<25541>>>>, <<194753, <<25513>>>>, <<194754, <<14894>>>>, <<194755, <<25705>>>>,
    <<194756, <<25726>>>>, <<194757, <<25757>>>>, <<194758, <<25719>>>>, <<194759, <<14956>>>>,
    <<194760, <<25935>>>>, <<194761, <<25964>>>>, <<194762, <<143370>>>>,
    <<194763, <<26083>>>>, <<194764, <<26360>>>>, <<194765, <<26185>>>>, <<194766, <<15129>>>>,
    <<194767, <<26257>>>>, <<194768, <<15112>>>>, <<194769, <<15076>>>>, <<194770, <<20882>>>>,
    <<194771, <<20885>>>>, <<194772, <<26368>>>>, <<194773, <<26268>>>>, <<194774, <<32941>>>>,
    <<194775, <<17369>>>>, <<194776, <<26391>>>>, <<194777, <<26395>>>>, <<194778, <<26401>>>>,
    <<194779, <<26462>>>>, <<194780, <<26451>>>>, <<194781, <<144323>>>>,
    <<194782, <<15177>>>>, <<194783, <<26618>>>>, <<194784, <<26501>>>>, <<194785, <<26706>>>>,
    <<194786, <<26757>>>>, <<194787, <<144493>>>>, <<194788, <<26766>>>>,
    <<194789, <<26655>>>>, <<194790, <<26900>>>>, <<194791, <<15261>>>>, <<194792, <<26946>>>>,
    <<194793, <<27043>>>>, <<194794, <<27114>>>>, <<194795, <<27304>>>>,
    <<194796, <<145059>>>>, <<194797, <<27355>>>>, <<194798, <<15384>>>>,
    <<194799, <<27425>>>>, <<194800, <<145575>>>>, <<194801, <<27476>>>>,
    <<194802, <<15438>>>>, <<194803, <<27506>>>>, <<194804, <<27551>>>>, <<194805, <<27578>>>>,
    <<194806, <<27579>>>>, <<194807, <<146061>>>>, <<194808, <<138507>>>>,
    <<194809, <<146170>>>>, <<194810, <<27726>>>>, <<194811, <<146620>>>>,
    <<194812, <<27839>>>>, <<194813, <<27853>>>>, <<194814, <<27751>>>>, <<194815, <<27926>>>>,
    <<194816, <<27966>>>>, <<194817, <<28023>>>>, <<194818, <<27969>>>>, <<194819, <<28009>>>>,
    <<194820, <<28024>>>>, <<194821, <<28037>>>>, <<194822, <<146718>>>>,
    <<194823, <<27956>>>>, <<194824, <<28207>>>>, <<194825, <<28270>>>>, <<194826, <<15667>>>>,
    <<194827, <<28363>>>>, <<194828, <<28359>>>>, <<194829, <<147153>>>>,
    <<194830, <<28153>>>>, <<194831, <<28526>>>>, <<194832, <<147294>>>>,
    <<194833, <<147342>>>>, <<194834, <<28614>>>>, <<194835, <<28729>>>>,
    <<194836, <<28702>>>>, <<194837, <<28699>>>>, <<194838, <<15766>>>>, <<194839, <<28746>>>>,
    <<194840, <<28797>>>>, <<194841, <<28791>>>>, <<194842, <<28845>>>>,
    <<194843, <<132389>>>>, <<194844, <<28997>>>>, <<194845, <<148067>>>>,
    <<194846, <<29084>>>>, <<194847, <<148395>>>>, <<194848, <<29224>>>>,
    <<194849, <<29237>>>>, <<194850, <<29264>>>>, <<194851, <<149000>>>>,
    <<194852, <<29312>>>>, <<194853, <<29333>>>>, <<194854, <<149301>>>>,
    <<194855, <<149524>>>>, <<194856, <<29562>>>>, <<194857, <<29579>>>>,
    <<194858, <<16044>>>>, <<194859, <<29605>>>>, <<194860, <<16056>>>>, <<194861, <<16056>>>>,
    <<194862, <<29767>>>>, <<194863, <<29788>>>>, <<194864, <<29809>>>>, <<194865, <<29829>>>>,
    <<194866, <<29898>>>>, <<194867, <<16155>>>>, <<194868, <<29988>>>>,
    <<194869, <<150582>>>>, <<194870, <<30014>>>>, <<194871, <<150674>>>>,
    <<194872, <<30064>>>>, <<194873, <<139679>>>>, <<194874, <<30224>>>>,
    <<194875, <<151457>>>>, <<194876, <<151480>>>>, <<194877, <<151620>>>>,
    <<194878, <<16380>>>>, <<194879, <<16392>>>>, <<194880, <<30452>>>>,
    <<194881, <<151795>>>>, <<194882, <<151794>>>>, <<194883, <<151833>>>>,
    <<194884, <<151859>>>>, <<194885, <<30494>>>>, <<194886, <<30495>>>>,
    <<194887, <<30495>>>>, <<194888, <<30538>>>>, <<194889, <<16441>>>>, <<194890, <<30603>>>>,
    <<194891, <<16454>>>>, <<194892, <<16534>>>>, <<194893, <<152605>>>>,
    <<194894, <<30798>>>>, <<194895, <<30860>>>>, <<194896, <<30924>>>>, <<194897, <<16611>>>>,
    <<194898, <<153126>>>>, <<194899, <<31062>>>>, <<194900, <<153242>>>>,
    <<194901, <<153285>>>>, <<194902, <<31119>>>>, <<194903, <<31211>>>>,
    <<194904, <<16687>>>>, <<194905, <<31296>>>>, <<194906, <<31306>>>>, <<194907, <<31311>>>>,
    <<194908, <<153980>>>>, <<194909, <<154279>>>>, <<194910, <<154279>>>>,
    <<194911, <<31470>>>>, <<194912, <<16898>>>>, <<194913, <<154539>>>>,
    <<194914, <<31686>>>>, <<194915, <<31689>>>>, <<194916, <<16935>>>>,
    <<194917, <<154752>>>>, <<194918, <<31954>>>>, <<194919, <<17056>>>>,
    <<194920, <<31976>>>>, <<194921, <<31971>>>>, <<194922, <<32000>>>>,
    <<194923, <<155526>>>>, <<194924, <<32099>>>>, <<194925, <<17153>>>>,
    <<194926, <<32199>>>>, <<194927, <<32258>>>>, <<194928, <<32325>>>>, <<194929, <<17204>>>>,
    <<194930, <<156200>>>>, <<194931, <<156231>>>>, <<194932, <<17241>>>>,
    <<194933, <<156377>>>>, <<194934, <<32634>>>>, <<194935, <<156478>>>>,
    <<194936, <<32661>>>>, <<194937, <<32762>>>>, <<194938, <<32773>>>>,
    <<194939, <<156890>>>>, <<194940, <<156963>>>>, <<194941, <<32864>>>>,
    <<194942, <<157096>>>>, <<194943, <<32880>>>>, <<194944, <<144223>>>>,
    <<194945, <<17365>>>>, <<194946, <<32946>>>>, <<194947, <<33027>>>>, <<194948, <<17419>>>>,
    <<194949, <<33086>>>>, <<194950, <<23221>>>>, <<194951, <<157607>>>>,
    <<194952, <<157621>>>>, <<194953, <<144275>>>>, <<194954, <<144284>>>>,
    <<194955, <<33281>>>>, <<194956, <<33284>>>>, <<194957, <<36766>>>>, <<194958, <<17515>>>>,
    <<194959, <<33425>>>>, <<194960, <<33419>>>>, <<194961, <<33437>>>>, <<194962, <<21171>>>>,
    <<194963, <<33457>>>>, <<194964, <<33459>>>>, <<194965, <<33469>>>>, <<194966, <<33510>>>>,
    <<194967, <<158524>>>>, <<194968, <<33509>>>>, <<194969, <<33565>>>>,
    <<194970, <<33635>>>>, <<194971, <<33709>>>>, <<194972, <<33571>>>>, <<194973, <<33725>>>>,
    <<194974, <<33767>>>>, <<194975, <<33879>>>>, <<194976, <<33619>>>>, <<194977, <<33738>>>>,
    <<194978, <<33740>>>>, <<194979, <<33756>>>>, <<194980, <<158774>>>>,
    <<194981, <<159083>>>>, <<194982, <<158933>>>>, <<194983, <<17707>>>>,
    <<194984, <<34033>>>>, <<194985, <<34035>>>>, <<194986, <<34070>>>>,
    <<194987, <<160714>>>>, <<194988, <<34148>>>>, <<194989, <<159532>>>>,
    <<194990, <<17757>>>>, <<194991, <<17761>>>>, <<194992, <<159665>>>>,
    <<194993, <<159954>>>>, <<194994, <<17771>>>>, <<194995, <<34384>>>>,
    <<194996, <<34396>>>>, <<194997, <<34407>>>>, <<194998, <<34409>>>>, <<194999, <<34473>>>>,
    <<195000, <<34440>>>>, <<195001, <<34574>>>>, <<195002, <<34530>>>>, <<195003, <<34681>>>>,
    <<195004, <<34600>>>>, <<195005, <<34667>>>>, <<195006, <<34694>>>>, <<195007, <<17879>>>>,
    <<195008, <<34785>>>>, <<195009, <<34817>>>>, <<195010, <<17913>>>>, <<195011, <<34912>>>>,
    <<195012, <<34915>>>>, <<195013, <<161383>>>>, <<195014, <<35031>>>>,
    <<195015, <<35038>>>>, <<195016, <<17973>>>>, <<195017, <<35066>>>>, <<195018, <<13499>>>>,
    <<195019, <<161966>>>>, <<195020, <<162150>>>>, <<195021, <<18110>>>>,
    <<195022, <<18119>>>>, <<195023, <<35488>>>>, <<195024, <<35565>>>>, <<195025, <<35722>>>>,
    <<195026, <<35925>>>>, <<195027, <<162984>>>>, <<195028, <<36011>>>>,
    <<195029, <<36033>>>>, <<195030, <<36123>>>>, <<195031, <<36215>>>>,
    <<195032, <<163631>>>>, <<195033, <<133124>>>>, <<195034, <<36299>>>>,
    <<195035, <<36284>>>>, <<195036, <<36336>>>>, <<195037, <<133342>>>>,
    <<195038, <<36564>>>>, <<195039, <<36664>>>>, <<195040, <<165330>>>>,
    <<195041, <<165357>>>>, <<195042, <<37012>>>>, <<195043, <<37105>>>>,
    <<195044, <<37137>>>>, <<195045, <<165678>>>>, <<195046, <<37147>>>>,
    <<195047, <<37432>>>>, <<195048, <<37591>>>>, <<195049, <<37592>>>>, <<195050, <<37500>>>>,
    <<195051, <<37881>>>>, <<195052, <<37909>>>>, <<195053, <<166906>>>>,
    <<195054, <<38283>>>>, <<195055, <<18837>>>>, <<195056, <<38327>>>>,
    <<195057, <<167287>>>>, <<195058, <<18918>>>>, <<195059, <<38595>>>>,
    <<195060, <<23986>>>>, <<195061, <<38691>>>>, <<195062, <<168261>>>>,
    <<195063, <<168474>>>>, <<195064, <<19054>>>>, <<195065, <<19062>>>>,
    <<195066, <<38880>>>>, <<195067, <<168970>>>>, <<195068, <<19122>>>>,
    <<195069, <<169110>>>>, <<195070, <<38923>>>>, <<195071, <<38923>>>>,
    <<195072, <<38953>>>>, <<195073, <<169398>>>>, <<195074, <<39138>>>>,
    <<195075, <<19251>>>>, <<195076, <<39209>>>>, <<195077, <<39335>>>>, <<195078, <<39362>>>>,
    <<195079, <<39422>>>>, <<195080, <<19406>>>>, <<195081, <<170800>>>>,
    <<195082, <<39698>>>>, <<195083, <<40000>>>>, <<195084, <<40189>>>>, <<195085, <<19662>>>>,
    <<195086, <<19693>>>>, <<195087, <<40295>>>>, <<195088, <<172238>>>>,
    <<195089, <<19704>>>>, <<195090, <<172293>>>>, <<195091, <<172558>>>>,
    <<195092, <<172689>>>>, <<195093, <<40635>>>>, <<195094, <<19798>>>>,
    <<195095, <<40697>>>>, <<195096, <<40702>>>>, <<195097, <<40709>>>>, <<195098, <<40719>>>>,
    <<195099, <<40726>>>>, <<195100, <<40763>>>>, <<195101, <<173568>>>> >>

\* <<lo, hi, ccc>>: the code points lo..hi have canonical combining class
\* ccc; every code point in no range has class 0.  In increasing order.
COMBINING_CLASSES == <<
    <<768, 788, 230>>, <<789, 789, 232>>, <<790, 793, 220>>, <<794, 794, 232>>,
    <<795, 795, 216>>, <<796, 800, 220>>, <<801, 802, 202>>, <<803, 806, 220>>,
    <<807, 808, 202>>, <<809, 819, 220>>, <<820, 824, 1>>, <<825, 828, 220>>,
    <<829, 836, 230>>, <<837, 837, 240>>, <<838, 838, 230>>, <<839, 841, 220>>,
    <<842, 844, 230>>, <<845, 846, 220>>, <<848, 850, 230>>, <<851, 854, 220>>,
    <<855, 855, 230>>, <<856, 856, 232>>, <<857, 858, 220>>, <<859, 859, 230>>,
    <<860, 860, 233>>, <<861, 862, 234>>, <<863, 863, 233>>, <<864, 865, 234>>,
    <<866, 866, 233>>, <<867, 879, 230>>, <<1155, 1159, 230>>, <<1425, 1425, 220>>,
    <<1426, 1429, 230>>, <<1430, 1430, 220>>, <<1431, 1433, 230>>, <<1434, 1434, 222>>,
    <<1435, 1435, 220>>, <<1436, 1441, 230>>, <<1442, 1447, 220>>, <<1448, 1449, 230>>,
    <<1450, 1450, 220>>, <<1451, 1452, 230>>, <<1453, 1453, 222>>, <<1454, 1454, 228>>,
    <<1455, 1455, 230>>, <<1456, 1456, 10>>, <<1457, 1457, 11>>, <<1458, 1458, 12>>,
    <<1459, 1459, 13>>, <<1460, 1460, 14>>, <<1461, 1461, 15>>, <<1462, 1462, 16>>,
    <<1463, 1463, 17>>, <<1464, 1464, 18>>, <<1465, 1466, 19>>, <<1467, 1467, 20>>,
    <<1468, 1468, 21>>, <<1469, 1469, 22>>, <<1471, 1471, 23>>, <<1473, 1473, 24>>,
    <<1474, 1474, 25>>, <<1476, 1476, 230>>, <<1477, 1477, 220>>, <<1479, 1479, 18>>,
    <<1552, 1559, 230>>, <<1560, 1560, 30>>, <<1561, 1561, 31>>, <<1562, 1562, 32>>,
    <<1611, 1611, 27>>, <<1612, 1612, 28>>, <<1613, 1613, 29>>, <<1614, 1614, 30>>,
    <<1615, 1615, 31>>, <<1616, 1616, 32>>, <<1617, 1617, 33>>, <<1618, 1618, 34>>,
    <<1619, 1620, 230>>, <<1621, 1622, 220>>, <<1623, 1627, 230>>, <<1628, 1628, 220>>,
    <<1629, 1630, 230>>, <<1631, 1631, 220>>, <<1648, 1648, 35>>, <<1750, 1756, 230>>,
    <<1759, 1762, 230>>, <<1763, 1763, 220>>, <<1764, 1764, 230>>, <<1767, 1768, 230>>,
    <<1770, 1770, 220>>, <<1771, 1772, 230>>, <<1773, 1773, 220>>, <<1809, 1809, 36>>,
    <<1840, 1840, 230>>, <<1841, 1841, 220>>, <<1842, 1843, 230>>, <<1844, 1844, 220>>,
    <<1845, 1846, 230>>, <<1847, 1849, 220>>, <<1850, 1850, 230>>, <<1851, 1852, 220>>,
    <<1853, 1853, 230>>, <<1854, 1854, 220>>, <<1855, 1857, 230>>, <<1858, 1858, 220>>,
    <<1859, 1859, 230>>, <<1860, 1860, 220>>, <<1861, 1861, 230>>, <<1862, 1862, 220>>,
    <<1863, 1863, 230>>, <<1864, 1864, 220>>, <<1865, 1866, 230>>, <<2027, 2033, 230>>,
    <<2034, 2034, 220>>, <<2035, 2035, 230>>, <<2045, 2045, 220>>, <<2070, 2073, 230>>,
    <<2075, 2083, 230>>, <<2085, 2087, 230>>, <<2089, 2093, 230>>, <<2137, 2139, 220>>,
    <<2200, 2200, 230>>, <<2201, 2203, 220>>, <<2204, 2207, 230>>, <<2250, 2254, 230>>,
    <<2255, 2259, 220>>, <<2260, 2273, 230>>, <<2275, 2275, 220>>, <<2276, 2277, 230>>,
    <<2278, 2278, 220>>, <<2279, 2280, 230>>, <<2281, 2281, 220>>, <<2282, 2284, 230>>,
    <<2285, 2287, 220>>, <<2288, 2288, 27>>, <<2289, 2289, 28>>, <<2290, 2290, 29>>,
    <<2291, 2293, 230>>, <<2294, 2294, 220>>, <<2295, 2296, 230>>, <<2297, 2298, 220>>,
    <<2299, 2303, 230>>, <<2364, 2364, 7>>, <<2381, 2381, 9>>, <<2385, 2385, 230>>,
    <<2386, 2386, 220>>, <<2387, 2388, 230>>, <<2492, 2492, 7>>, <<2509, 2509, 9>>,
    <<2558, 2558, 230>>, <<2620, 2620, 7>>, <<2637, 2637, 9>>, <<2748, 2748, 7>>,
    <<2765, 2765, 9>>, <<2876, 2876, 7>>, <<2893, 2893, 9>>, <<3021, 3021, 9>>,
    <<3132, 3132, 7>>, <<3149, 3149, 9>>, <<3157, 3157, 84>>, <<3158, 3158, 91>>,
    <<3260, 3260, 7>>, <<3277, 3277, 9>>, <<3387, 3388, 9>>, <<3405, 3405, 9>>,
    <<3530, 3530, 9>>, <<3640, 3641, 103>>, <<3642, 3642, 9>>, <<3656, 3659, 107>>,
    <<3768, 3769, 118>>, <<3770, 3770, 9>>, <<3784, 3787, 122>>, <<3864, 3865, 220>>,
    <<3893, 3893, 220>>, <<3895, 3895, 220>>, <<3897, 3897, 216>>, <<3953, 3953, 129>>,
    <<3954, 3954, 130>>, <<3956, 3956, 132>>, <<3962, 3965, 130>>, <<3968, 3968, 130>>,
    <<3970, 3971, 230>>, <<3972, 3972, 9>>, <<3974, 3975, 230>>, <<4038, 4038, 220>>,
    <<4151, 4151, 7>>, <<4153, 4154, 9>>, <<4237, 4237, 220>>, <<4957, 4959, 230>>,
    <<5908, 5909, 9>>, <<5940, 5940, 9>>, <<6098, 6098, 9>>, <<6109, 6109, 230>>,
    <<6313, 6313, 228>>, <<6457, 6457, 222>>, <<6458, 6458, 230>>, <<6459, 6459, 220>>,
    <<6679, 6679, 230>>, <<6680, 6680, 220>>, <<6752, 6752, 9>>, <<6773, 6780, 230>>,
    <<6783, 6783, 220>>, <<6832, 6836, 230>>, <<6837, 6842, 220>>, <<6843, 6844, 230>>,
    <<6845, 6845, 220>>, <<6847, 6848, 220>>, <<6849, 6850, 230>>, <<6851, 6852, 220>>,
    <<6853, 6857, 230>>, <<6858, 6858, 220>>, <<6859, 6862, 230>>, <<6964, 6964, 7>>,
    <<6980, 6980, 9>>, <<7019, 7019, 230>>, <<7020, 7020, 220>>, <<7021, 7027, 230>>,
    <<7082, 7083, 9>>, <<7142, 7142, 7>>, <<7154, 7155, 9>>, <<7223, 7223, 7>>,
    <<7376, 7378, 230>>, <<7380, 7380, 1>>, <<7381, 7385, 220>>, <<7386, 7387, 230>>,
    <<7388, 7391, 220>>, <<7392, 7392, 230>>, <<7394, 7400, 1>>, <<7405, 7405, 220>>,
    <<7412, 7412, 230>>, <<7416, 7417, 230>>, <<7616, 7617, 230>>, <<7618, 7618, 220>>,
    <<7619, 7625, 230>>, <<7626, 7626, 220>>, <<7627, 7628, 230>>, <<7629, 7629, 234>>,
    <<7630, 7630, 214>>, <<7631, 7631, 220>>, <<7632, 7632, 202>>, <<7633, 7669, 230>>,
    <<7670, 7670, 232>>, <<7671, 7672, 228>>, <<7673, 7673, 220>>, <<7674, 7674, 218>>,
    <<7675, 7675, 230>>, <<7676, 7676, 233>>, <<7677, 7677, 220>>, <<7678, 7678, 230>>,
    <<7679, 7679, 220>>, <<8400, 8401, 230>>, <<8402, 8403, 1>>, <<8404, 8407, 230>>,
    <<8408, 8410, 1>>, <<8411, 8412, 230>>, <<8417, 8417, 230>>, <<8421, 8422, 1>>,
    <<8423, 8423, 230>>, <<8424, 8424, 220>>, <<8425, 8425, 230>>, <<8426, 8427, 1>>,
    <<8428, 8431, 220>>, <<8432, 8432, 230>>, <<11503, 11505, 230>>, <<11647, 11647, 9>>,
    <<11744, 11775, 230>>, <<12330, 12330, 218>>, <<12331, 12331, 228>>, <<12332, 12332, 232>>,
    <<12333, 12333, 222>>, <<12334, 12335, 224>>, <<12441, 12442, 8>>, <<42607, 42607, 230>>,
    <<42612, 42621, 230>>, <<42654, 42655, 230>>, <<42736, 42737, 230>>, <<43014, 43014, 9>>,
    <<43052, 43052, 9>>, <<43204, 43204, 9>>, <<43232, 43249, 230>>, <<43307, 43309, 220>>,
    <<43347, 43347, 9>>, <<43443, 43443, 7>>, <<43456, 43456, 9>>, <<43696, 43696, 230>>,
    <<43698, 43699, 230>>, <<43700, 43700, 220>>, <<43703, 43704, 230>>, <<43710, 43711, 230>>,
    <<43713, 43713, 230>>, <<43766, 43766, 9>>, <<44013, 44013, 9>>, <<64286, 64286, 26>>,
    <<65056, 65062, 230>>, <<65063, 65069, 220>>, <<65070, 65071, 230>>, <<66045, 66045, 220>>,
    <<66272, 66272, 220>>, <<66422, 66426, 230>>, <<68109, 68109, 220>>, <<68111, 68111, 230>>,
    <<68152, 68152, 230>>, <<68153, 68153, 1>>, <<68154, 68154, 220>>, <<68159, 68159, 9>>,
    <<68325, 68325, 230>>, <<68326, 68326, 220>>, <<68900, 68903, 230>>, <<69291, 69292, 230>>,
    <<69446, 69447, 220>>, <<69448, 69450, 230>>, <<69451, 69451, 220>>, <<69452, 69452, 230>>,
    <<69453, 69456, 220>>, <<69506, 69506, 230>>, <<69507, 69507, 220>>, <<69508, 69508, 230>>,
    <<69509, 69509, 220>>, <<69702, 69702, 9>>, <<69744, 69744, 9>>, <<69759, 69759, 9>>,
    <<69817, 69817, 9>>, <<69818, 69818, 7>>, <<69888, 69890, 230>>, <<69939, 69940, 9>>,
    <<70003, 70003, 7>>, <<70080, 70080, 9>>, <<70090, 70090, 7>>, <<70197, 70197, 9>>,
    <<70198, 70198, 7>>, <<70377, 70377, 7>>, <<70378, 70378, 9>>, <<70459, 70460, 7>>,
    <<70477, 70477, 9>>, <<70502, 70508, 230>>, <<70512, 70516, 230>>, <<70722, 70722, 9>>,
    <<70726, 70726, 7>>, <<70750, 70750, 230>>, <<70850, 70850, 9>>, <<70851, 70851, 7>>,
    <<71103, 71103, 9>>, <<71104, 71104, 7>>, <<71231, 71231, 9>>, <<71350, 71350, 9>>,
    <<71351, 71351, 7>>, <<71467, 71467, 9>>, <<71737, 71737, 9>>, <<71738, 71738, 7>>,
    <<71997, 71998, 9>>, <<72003, 72003, 7>>, <<72160, 72160, 9>>, <<72244, 72244, 9>>,
    <<72263, 72263, 9>>, <<72345, 72345, 9>>, <<72767, 72767, 9>>, <<73026, 73026, 7>>,
    <<73028, 73029, 9>>, <<73111, 73111, 9>>, <<92912, 92916, 1>>, <<92976, 92982, 230>>,
    <<94192, 94193, 6>>, <<113822, 113822, 1>>, <<119141, 119142, 216>>, <<119143, 119145, 1>>,
    <<119149, 119149, 226>>, <<119150, 119154, 216>>, <<119163, 119170, 220>>,
    <<119173, 119177, 230>>, <<119178, 119179, 220>>, <<119210, 119213, 230>>,
    <<119362, 119364, 230>>, <<122880, 122886, 230>>, <<122888, 122904, 230>>,
    <<122907, 122913, 230>>, <<122915, 122916, 230>>, <<122918, 122922, 230>>,
    <<123184, 123190, 230>>, <<123566, 123566, 230>>, <<123628, 123631, 230>>,
    <<125136, 125142, 220>>, <<125252, 125257, 230>>, <<125258, 125258, 7>> >>

\* <<first, second, composite>>: the primary composites (the canonical pairs
\* that are not composition exclusions), in increasing order of <<first, second>>.
COMPOSITION_PAIRS == <<
    <<60, 824, 8814>>, <<61, 824, 8800>>, <<62, 824, 8815>>, <<65, 768, 192>>,
    <<65, 769, 193>>, <<65, 770, 194>>, <<65, 771, 195>>, <<65, 772, 256>>, <<65, 774, 258>>,
    <<65, 775, 550>>, <<65, 776, 196>>, <<65, 777, 7842>>, <<65, 778, 197>>, <<65, 780, 461>>,
    <<65, 783, 512>>, <<65, 785, 514>>, <<65, 803, 7840>>, <<65, 805, 7680>>, <<65, 808, 260>>,
    <<66, 775, 7682>>, <<66, 803, 7684>>, <<66, 817, 7686>>, <<67, 769, 262>>,
    <<67, 770, 264>>, <<67, 775, 266>>, <<67, 780, 268>>, <<67, 807, 199>>, <<68, 775, 7690>>,
    <<68, 780, 270>>, <<68, 803, 7692>>, <<68, 807, 7696>>, <<68, 813, 7698>>,
    <<68, 817, 7694>>, <<69, 768, 200>>, <<69, 769, 201>>, <<69, 770, 202>>, <<69, 771, 7868>>,
    <<69, 772, 274>>, <<69, 774, 276>>, <<69, 775, 278>>, <<69, 776, 203>>, <<69, 777, 7866>>,
    <<69, 780, 282>>, <<69, 783, 516>>, <<69, 785, 518>>, <<69, 803, 7864>>, <<69, 807, 552>>,
    <<69, 808, 280>>, <<69, 813, 7704>>, <<69, 816, 7706>>, <<70, 775, 7710>>,
    <<71, 769, 500>>, <<71, 770, 284>>, <<71, 772, 7712>>, <<71, 774, 286>>, <<71, 775, 288>>,
    <<71, 780, 486>>, <<71, 807, 290>>, <<72, 770, 292>>, <<72, 775, 7714>>, <<72, 776, 7718>>,
    <<72, 780, 542>>, <<72, 803, 7716>>, <<72, 807, 7720>>, <<72, 814, 7722>>,
    <<73, 768, 204>>, <<73, 769, 205>>, <<73, 770, 206>>, <<73, 771, 296>>, <<73, 772, 298>>,
    <<73, 774, 300>>, <<73, 775, 304>>, <<73, 776, 207>>, <<73, 777, 7880>>, <<73, 780, 463>>,
    <<73, 783, 520>>, <<73, 785, 522>>, <<73, 803, 7882>>, <<73, 808, 302>>, <<73, 816, 7724>>,
    <<74, 770, 308>>, <<75, 769, 7728>>, <<75, 780, 488>>, <<75, 803, 7730>>, <<75, 807, 310>>,
    <<75, 817, 7732>>, <<76, 769, 313>>, <<76, 780, 317>>, <<76, 803, 7734>>, <<76, 807, 315>>,
    <<76, 813, 7740>>, <<76, 817, 7738>>, <<77, 769, 7742>>, <<77, 775, 7744>>,
    <<77, 803, 7746>>, <<78, 768, 504>>, <<78, 769, 323>>, <<78, 771, 209>>, <<78, 775, 7748>>,
    <<78, 780, 327>>, <<78, 803, 7750>>, <<78, 807, 325>>, <<78, 813, 7754>>,
    <<78, 817, 7752>>, <<79, 768, 210>>, <<79, 769, 211>>, <<79, 770, 212>>, <<79, 771, 213>>,
    <<79, 772, 332>>, <<79, 774, 334>>, <<79, 775, 558>>, <<79, 776, 214>>, <<79, 777, 7886>>,
    <<79, 779, 336>>, <<79, 780, 465>>, <<79, 783, 524>>, <<79, 785, 526>>, <<79, 795, 416>>,
    <<79, 803, 7884>>, <<79, 808, 490>>, <<80, 769, 7764>>, <<80, 775, 7766>>,
    <<82, 769, 340>>, <<82, 775, 7768>>, <<82, 780, 344>>, <<82, 783, 528>>, <<82, 785, 530>>,
    <<82, 803, 7770>>, <<82, 807, 342>>, <<82, 817, 7774>>, <<83, 769, 346>>, <<83, 770, 348>>,
    <<83, 775, 7776>>, <<83, 780, 352>>, <<83, 803, 7778>>, <<83, 806, 536>>, <<83, 807, 350>>,
    <<84, 775, 7786>>, <<84, 780, 356>>, <<84, 803, 7788>>, <<84, 806, 538>>, <<84, 807, 354>>,
    <<84, 813, 7792>>, <<84, 817, 7790>>, <<85, 768, 217>>, <<85, 769, 218>>, <<85, 770, 219>>,
    <<85, 771, 360>>, <<85, 772, 362>>, <<85, 774, 364>>, <<85, 776, 220>>, <<85, 777, 7910>>,
    <<85, 778, 366>>, <<85, 779, 368>>, <<85, 780, 467>>, <<85, 783, 532>>, <<85, 785, 534>>,
    <<85, 795, 431>>, <<85, 803, 7908>>, <<85, 804, 7794>>, <<85, 808, 370>>,
    <<85, 813, 7798>>, <<85, 816, 7796>>, <<86, 771, 7804>>, <<86, 803, 7806>>,
    <<87, 768, 7808>>, <<87, 769, 7810>>, <<87, 770, 372>>, <<87, 775, 7814>>,
    <<87, 776, 7812>>, <<87, 803, 7816>>, <<88, 775, 7818>>, <<88, 776, 7820>>,
    <<89, 768, 7922>>, <<89, 769, 221>>, <<89, 770, 374>>, <<89, 771, 7928>>, <<89, 772, 562>>,
    <<89, 775, 7822>>, <<89, 776, 376>>, <<89, 777, 7926>>, <<89, 803, 7924>>,
    <<90, 769, 377>>, <<90, 770, 7824>>, <<90, 775, 379>>, <<90, 780, 381>>, <<90, 803, 7826>>,
    <<90, 817, 7828>>, <<97, 768, 224>>, <<97, 769, 225>>, <<97, 770, 226>>, <<97, 771, 227>>,
    <<97, 772, 257>>, <<97, 774, 259>>, <<97, 775, 551>>, <<97, 776, 228>>, <<97, 777, 7843>>,
    <<97, 778, 229>>, <<97, 780, 462>>, <<97, 783, 513>>, <<97, 785, 515>>, <<97, 803, 7841>>,
    <<97, 805, 7681>>, <<97, 808, 261>>, <<98, 775, 7683>>, <<98, 803, 7685>>,
    <<98, 817, 7687>>, <<99, 769, 263>>, <<99, 770, 265>>, <<99, 775, 267>>, <<99, 780, 269>>,
    <<99, 807, 231>>, <<100, 775, 7691>>, <<100, 780, 271>>, <<100, 803, 7693>>,
    <<100, 807, 7697>>, <<100, 813, 7699>>, <<100, 817, 7695>>, <<101, 768, 232>>,
    <<101, 769, 233>>, <<101, 770, 234>>, <<101, 771, 7869>>, <<101, 772, 275>>,
    <<101, 774, 277>>, <<101, 775, 279>>, <<101, 776, 235>>, <<101, 777, 7867>>,
    <<101, 780, 283>>, <<101, 783, 517>>, <<101, 785, 519>>, <<101, 803, 7865>>,
    <<101, 807, 553>>, <<101, 808, 281>>, <<101, 813, 7705>>, <<101, 816, 7707>>,
    <<102, 775, 7711>>, <<103, 769, 501>>, <<103, 770, 285>>, <<103, 772, 7713>>,
    <<103, 774, 287>>, <<103, 775, 289>>, <<103, 780, 487>>, <<103, 807, 291>>,
    <<104, 770, 293>>, <<104, 775, 7715>>, <<104, 776, 7719>>, <<104, 780, 543>>,
    <<104, 803, 7717>>, <<104, 807, 7721>>, <<104, 814, 7723>>, <<104, 817, 7830>>,
    <<105, 768, 236>>, <<105, 769, 237>>, <<105, 770, 238>>, <<105, 771, 297>>,
    <<105, 772, 299>>, <<105, 774, 301>>, <<105, 776, 239>>, <<105, 777, 7881>>,
    <<105, 780, 464>>, <<105, 783, 521>>, <<105, 785, 523>>, <<105, 803, 7883>>,
    <<105, 808, 303>>, <<105, 816, 7725>>, <<106, 770, 309>>, <<106, 780, 496>>,
    <<107, 769, 7729>>, <<107, 780, 489>>, <<107, 803, 7731>>, <<107, 807, 311>>,
    <<107, 817, 7733>>, <<108, 769, 314>>, <<108, 780, 318>>, <<108, 803, 7735>>,
    <<108, 807, 316>>, <<108, 813, 7741>>, <<108, 817, 7739>>, <<109, 769, 7743>>,
    <<109, 775, 7745>>, <<109, 803, 7747>>, <<110, 768, 505>>, <<110, 769, 324>>,
    <<110, 771, 241>>, <<110, 775, 7749>>, <<110, 780, 328>>, <<110, 803, 7751>>,
    <<110, 807, 326>>, <<110, 813, 7755>>, <<110, 817, 7753>>, <<111, 768, 242>>,
    <<111, 769, 243>>, <<111, 770, 244>>, <<111, 771, 245>>, <<111, 772, 333>>,
    <<111, 774, 335>>, <<111, 775, 559>>, <<111, 776, 246>>, <<111, 777, 7887>>,
    <<111, 779, 337>>, <<111, 780, 466>>, <<111, 783, 525>>, <<111, 785, 527>>,
    <<111, 795, 417>>, <<111, 803, 7885>>, <<111, 808, 491>>, <<112, 769, 7765>>,
    <<112, 775, 7767>>, <<114, 769, 341>>, <<114, 775, 7769>>, <<114, 780, 345>>,
    <<114, 783, 529>>, <<114, 785, 531>>, <<114, 803, 7771>>, <<114, 807, 343>>,
    <<114, 817, 7775>>, <<115, 769, 347>>, <<115, 770, 349>>, <<115, 775, 7777>>,
    <<115, 780, 353>>, <<115, 803, 7779>>, <<115, 806, 537>>, <<115, 807, 351>>,
    <<116, 775, 7787>>, <<116, 776, 7831>>, <<116, 780, 357>>, <<116, 803, 7789>>,
    <<116, 806, 539>>, <<116, 807, 355>>, <<116, 813, 7793>>, <<116, 817, 7791>>,
    <<117, 768, 249>>, <<117, 769, 250>>, <<117, 770, 251>>, <<117, 771, 361>>,
    <<117, 772, 363>>, <<117, 774, 365>>, <<117, 776, 252>>, <<117, 777, 7911>>,
    <<117, 778, 367>>, <<117, 779, 369>>, <<117, 780, 468>>, <<117, 783, 533>>,
    <<117, 785, 535>>, <<117, 795, 432>>, <<117, 803, 7909>>, <<117, 804, 7795>>,
    <<117, 808, 371>>, <<117, 813, 7799>>, <<117, 816, 7797>>, <<118, 771, 7805>>,
    <<118, 803, 7807>>, <<119, 768, 7809>>, <<119, 769, 7811>>, <<119, 770, 373>>,
    <<119, 775, 7815>>, <<119, 776, 7813>>, <<119, 778, 7832>>, <<119, 803, 7817>>,
    <<120, 775, 7819>>, <<120, 776, 7821>>, <<121, 768, 7923>>, <<121, 769, 253>>,
    <<121, 770, 375>>, <<121, 771, 7929>>, <<121, 772, 563>>, <<121, 775, 7823>>,
    <<121, 776, 255>>, <<121, 777, 7927>>, <<121, 778, 7833>>, <<121, 803, 7925>>,
    <<122, 769, 378>>, <<122, 770, 7825>>, <<122, 775, 380>>, <<122, 780, 382>>,
    <<122, 803, 7827>>, <<122, 817, 7829>>, <<168, 768, 8173>>, <<168, 769, 901>>,
    <<168, 834, 8129>>, <<194, 768, 7846>>, <<194, 769, 7844>>, <<194, 771, 7850>>,
    <<194, 777, 7848>>, <<196, 772, 478>>, <<197, 769, 506>>, <<198, 769, 508>>,
    <<198, 772, 482>>, <<199, 769, 7688>>, <<202, 768, 7872>>, <<202, 769, 7870>>,
    <<202, 771, 7876>>, <<202, 777, 7874>>, <<207, 769, 7726>>, <<212, 768, 7890>>,
    <<212, 769, 7888>>, <<212, 771, 7894>>, <<212, 777, 7892>>, <<213, 769, 7756>>,
    <<213, 772, 556>>, <<213, 776, 7758>>, <<214, 772, 554>>, <<216, 769, 510>>,
    <<220, 768, 475>>, <<220, 769, 471>>, <<220, 772, 469>>, <<220, 780, 473>>,
    <<226, 768, 7847>>, <<226, 769, 7845>>, <<226, 771, 7851>>, <<226, 777, 7849>>,
    <<228, 772, 479>>, <<229, 769, 507>>, <<230, 769, 509>>, <<230, 772, 483>>,
    <<231, 769, 7689>>, <<234, 768, 7873>>, <<234, 769, 7871>>, <<234, 771, 7877>>,
    <<234, 777, 7875>>, <<239, 769, 7727>>, <<244, 768, 7891>>, <<244, 769, 7889>>,
    <<244, 771, 7895>>, <<244, 777, 7893>>, <<245, 769, 7757>>, <<245, 772, 557>>,
    <<245, 776, 7759>>, <<246, 772, 555>>, <<248, 769, 511>>, <<252, 768, 476>>,
    <<252, 769, 472>>, <<252, 772, 470>>, <<252, 780, 474>>, <<258, 768, 7856>>,
    <<258, 769, 7854>>, <<258, 771, 7860>>, <<258, 777, 7858>>, <<259, 768, 7857>>,
    <<259, 769, 7855>>, <<259, 771, 7861>>, <<259, 777, 7859>>, <<274, 768, 7700>>,
    <<274, 769, 7702>>, <<275, 768, 7701>>, <<275, 769, 7703>>, <<332, 768, 7760>>,
    <<332, 769, 7762>>, <<333, 768, 7761>>, <<333, 769, 7763>>, <<346, 775, 7780>>,
    <<347, 775, 7781>>, <<352, 775, 7782>>, <<353, 775, 7783>>, <<360, 769, 7800>>,
    <<361, 769, 7801>>, <<362, 776, 7802>>, <<363, 776, 7803>>, <<383, 775, 7835>>,
    <<416, 768, 7900>>, <<416, 769, 7898>>, <<416, 771, 7904>>, <<416, 777, 7902>>,
    <<416, 803, 7906>>, <<417, 768, 7901>>, <<417, 769, 7899>>, <<417, 771, 7905>>,
    <<417, 777, 7903>>, <<417, 803, 7907>>, <<431, 768, 7914>>, <<431, 769, 7912>>,
    <<431, 771, 7918>>, <<431, 777, 7916>>, <<431, 803, 7920>>, <<432, 768, 7915>>,
    <<432, 769, 7913>>, <<432, 771, 7919>>, <<432, 777, 7917>>, <<432, 803, 7921>>,
    <<439, 780, 494>>, <<490, 772, 492>>, <<491, 772, 493>>, <<550, 772, 480>>,
    <<551, 772, 481>>, <<552, 774, 7708>>, <<553, 774, 7709>>, <<558, 772, 560>>,
    <<559, 772, 561>>, <<658, 780, 495>>, <<913, 768, 8122>>, <<913, 769, 902>>,
    <<913, 772, 8121>>, <<913, 774, 8120>>, <<913, 787, 7944>>, <<913, 788, 7945>>,
    <<913, 837, 8124>>, <<917, 768, 8136>>, <<917, 769, 904>>, <<917, 787, 7960>>,
    <<917, 788, 7961>>, <<919, 768, 8138>>, <<919, 769, 905>>, <<919, 787, 7976>>,
    <<919, 788, 7977>>, <<919, 837, 8140>>, <<921, 768, 8154>>, <<921, 769, 906>>,
    <<921, 772, 8153>>, <<921, 774, 8152>>, <<921, 776, 938>>, <<921, 787, 7992>>,
    <<921, 788, 7993>>, <<927, 768, 8184>>, <<927, 769, 908>>, <<927, 787, 8008>>,
    <<927, 788, 8009>>, <<929, 788, 8172>>, <<933, 768, 8170>>, <<933, 769, 910>>,
    <<933, 772, 8169>>, <<933, 774, 8168>>, <<933, 776, 939>>, <<933, 788, 8025>>,
    <<937, 768, 8186>>, <<937, 769, 911>>, <<937, 787, 8040>>, <<937, 788, 8041>>,
    <<937, 837, 8188>>, <<940, 837, 8116>>, <<942, 837, 8132>>, <<945, 768, 8048>>,
    <<945, 769, 940>>, <<945, 772, 8113>>, <<945, 774, 8112>>, <<945, 787, 7936>>,
    <<945, 788, 7937>>, <<945, 834, 8118>>, <<945, 837, 8115>>, <<949, 768, 8050>>,
    <<949, 769, 941>>, <<949, 787, 7952>>, <<949, 788, 7953>>, <<951, 768, 8052>>,
    <<951, 769, 942>>, <<951, 787, 7968>>, <<951, 788, 7969>>, <<951, 834, 8134>>,
    <<951, 837, 8131>>, <<953, 768, 8054>>, <<953, 769, 943>>, <<953, 772, 8145>>,
    <<953, 774, 8144>>, <<953, 776, 970>>, <<953, 787, 7984>>, <<953, 788, 7985>>,
    <<953, 834, 8150>>, <<959, 768, 8056>>, <<959, 769, 972>>, <<959, 787, 8000>>,
    <<959, 788, 8001>>, <<961, 787, 8164>>, <<961, 788, 8165>>, <<965, 768, 8058>>,
    <<965, 769, 973>>, <<965, 772, 8161>>, <<965, 774, 8160>>, <<965, 776, 971>>,
    <<965, 787, 8016>>, <<965, 788, 8017>>, <<965, 834, 8166>>, <<969, 768, 8060>>,
    <<969, 769, 974>>, <<969, 787, 8032>>, <<969, 788, 8033>>, <<969, 834, 8182>>,
    <<969, 837, 8179>>, <<970, 768, 8146>>, <<970, 769, 912>>, <<970, 834, 8151>>,
    <<971, 768, 8162>>, <<971, 769, 944>>, <<971, 834, 8167>>, <<974, 837, 8180>>,
    <<978, 769, 979>>, <<978, 776, 980>>, <<1030, 776, 1031>>, <<1040, 774, 1232>>,
    <<1040, 776, 1234>>, <<1043, 769, 1027>>, <<1045, 768, 1024>>, <<1045, 774, 1238>>,
    <<1045, 776, 1025>>, <<1046, 774, 1217>>, <<1046, 776, 1244>>, <<1047, 776, 1246>>,
    <<1048, 768, 1037>>, <<1048, 772, 1250>>, <<1048, 774, 1049>>, <<1048, 776, 1252>>,
    <<1050, 769, 1036>>, <<1054, 776, 1254>>, <<1059, 772, 1262>>, <<1059, 774, 1038>>,
    <<1059, 776, 1264>>, <<1059, 779, 1266>>, <<1063, 776, 1268>>, <<1067, 776, 1272>>,
    <<1069, 776, 1260>>, <<1072, 774, 1233>>, <<1072, 776, 1235>>, <<1075, 769, 1107>>,
    <<1077, 768, 1104>>, <<1077, 774, 1239>>, <<1077, 776, 1105>>, <<1078, 774, 1218>>,
    <<1078, 776, 1245>>, <<1079, 776, 1247>>, <<1080, 768, 1117>>, <<1080, 772, 1251>>,
    <<1080, 774, 1081>>, <<1080, 776, 1253>>, <<1082, 769, 1116>>, <<1086, 776, 1255>>,
    <<1091, 772, 1263>>, <<1091, 774, 1118>>, <<1091, 776, 1265>>, <<1091, 779, 1267>>,
    <<1095, 776, 1269>>, <<1099, 776, 1273>>, <<1101, 776, 1261>>, <<1110, 776, 1111>>,
    <<1140, 783, 1142>>, <<1141, 783, 1143>>, <<1240, 776, 1242>>, <<1241, 776, 1243>>,
    <<1256, 776, 1258>>, <<1257, 776, 1259>>, <<1575, 1619, 1570>>, <<1575, 1620, 1571>>,
    <<1575, 1621, 1573>>, <<1608, 1620, 1572>>, <<1610, 1620, 1574>>, <<1729, 1620, 1730>>,
    <<1746, 1620, 1747>>, <<1749, 1620, 1728>>, <<2344, 2364, 2345>>, <<2352, 2364, 2353>>,
    <<2355, 2364, 2356>>, <<2503, 2494, 2507>>, <<2503, 2519, 2508>>, <<2887, 2878, 2891>>,
    <<2887, 2902, 2888>>, <<2887, 2903, 2892>>, <<2962, 3031, 2964>>, <<3014, 3006, 3018>>,
    <<3014, 3031, 3020>>, <<3015, 3006, 3019>>, <<3142, 3158, 3144>>, <<3263, 3285, 3264>>,
    <<3270, 3266, 3274>>, <<3270, 3285, 3271>>, <<3270, 3286, 3272>>, <<3274, 3285, 3275>>,
    <<3398, 3390, 3402>>, <<3398, 3415, 3404>>, <<3399, 3390, 3403>>, <<3545, 3530, 3546>>,
    <<3545, 3535, 3548>>, <<3545, 3551, 3550>>, <<3548, 3530, 3549>>, <<4133, 4142, 4134>>,
    <<6917, 6965, 6918>>, <<6919, 6965, 6920>>, <<6921, 6965, 6922>>, <<6923, 6965, 6924>>,
    <<6925, 6965, 6926>>, <<6929, 6965, 6930>>, <<6970, 6965, 6971>>, <<6972, 6965, 6973>>,
    <<6974, 6965, 6976>>, <<6975, 6965, 6977>>, <<6978, 6965, 6979>>, <<7734, 772, 7736>>,
    <<7735, 772, 7737>>, <<7770, 772, 7772>>, <<7771, 772, 7773>>, <<7778, 775, 7784>>,
    <<7779, 775, 7785>>, <<7840, 770, 7852>>, <<7840, 774, 7862>>, <<7841, 770, 7853>>,
    <<7841, 774, 7863>>, <<7864, 770, 7878>>, <<7865, 770, 7879>>, <<7884, 770, 7896>>,
    <<7885, 770, 7897>>, <<7936, 768, 7938>>, <<7936, 769, 7940>>, <<7936, 834, 7942>>,
    <<7936, 837, 8064>>, <<7937, 768, 7939>>, <<7937, 769, 7941>>, <<7937, 834, 7943>>,
    <<7937, 837, 8065>>, <<7938, 837, 8066>>, <<7939, 837, 8067>>, <<7940, 837, 8068>>,
    <<7941, 837, 8069>>, <<7942, 837, 8070>>, <<7943, 837, 8071>>, <<7944, 768, 7946>>,
    <<7944, 769, 7948>>, <<7944, 834, 7950>>, <<7944, 837, 8072>>, <<7945, 768, 7947>>,
    <<7945, 769, 7949>>, <<7945, 834, 7951>>, <<7945, 837, 8073>>, <<7946, 837, 8074>>,
    <<7947, 837, 8075>>, <<7948, 837, 8076>>, <<7949, 837, 8077>>, <<7950, 837, 8078>>,
    <<7951, 837, 8079>>, <<7952, 768, 7954>>, <<7952, 769, 7956>>, <<7953, 768, 7955>>,
    <<7953, 769, 7957>>, <<7960, 768, 7962>>, <<7960, 769, 7964>>, <<7961, 768, 7963>>,
    <<7961, 769, 7965>>, <<7968, 768, 7970>>, <<7968, 769, 7972>>, <<7968, 834, 7974>>,
    <<7968, 837, 8080>>, <<7969, 768, 7971>>, <<7969, 769, 7973>>, <<7969, 834, 7975>>,
    <<7969, 837, 8081>>, <<7970, 837, 8082>>, <<7971, 837, 8083>>, <<7972, 837, 8084>>,
    <<7973, 837, 8085>>, <<7974, 837, 8086>>, <<7975, 837, 8087>>, <<7976, 768, 7978>>,
    <<7976, 769, 7980>>, <<7976, 834, 7982>>, <<7976, 837, 8088>>, <<7977, 768, 7979>>,
    <<7977, 769, 7981>>, <<7977, 834, 7983>>, <<7977, 837, 8089>>, <<7978, 837, 8090>>,
    <<7979, 837, 8091>>, <<7980, 837, 8092>>, <<7981, 837, 8093>>, <<7982, 837, 8094>>,
    <<7983, 837, 8095>>, <<7984, 768, 7986>>, <<7984, 769, 7988>>, <<7984, 834, 7990>>,
    <<7985, 768, 7987>>, <<7985, 769, 7989>>, <<7985, 834, 7991>>, <<7992, 768, 7994>>,
    <<7992, 769, 7996>>, <<7992, 834, 7998>>, <<7993, 768, 7995>>, <<7993, 769, 7997>>,
    <<7993, 834, 7999>>, <<8000, 768, 8002>>, <<8000, 769, 8004>>, <<8001, 768, 8003>>,
    <<8001, 769, 8005>>, <<8008, 768, 8010>>, <<8008, 769, 8012>>, <<8009, 768, 8011>>,
    <<8009, 769, 8013>>, <<8016, 768, 8018>>, <<8016, 769, 8020>>, <<8016, 834, 8022>>,
    <<8017, 768, 8019>>, <<8017, 769, 8021>>, <<8017, 834, 8023>>, <<8025, 768, 8027>>,
    <<8025, 769, 8029>>, <<8025, 834, 8031>>, <<8032, 768, 8034>>, <<8032, 769, 8036>>,
    <<8032, 834, 8038>>, <<8032, 837, 8096>>, <<8033, 768, 8035>>, <<8033, 769, 8037>>,
    <<8033, 834, 8039>>, <<8033, 837, 8097>>, <<8034, 837, 8098>>, <<8035, 837, 8099>>,
    <<8036, 837, 8100>>, <<8037, 837, 8101>>, <<8038, 837, 8102>>, <<8039, 837, 8103>>,
    <<8040, 768, 8042>>, <<8040, 769, 8044>>, <<8040, 834, 8046>>, <<8040, 837, 8104>>,
    <<8041, 768, 8043>>, <<8041, 769, 8045>>, <<8041, 834, 8047>>, <<8041, 837, 8105>>,
    <<8042, 837, 8106>>, <<8043, 837, 8107>>, <<8044, 837, 8108>>, <<8045, 837, 8109>>,
    <<8046, 837, 8110>>, <<8047, 837, 8111>>, <<8048, 837, 8114>>, <<8052, 837, 8130>>,
    <<8060, 837, 8178>>, <<8118, 837, 8119>>, <<8127, 768, 8141>>, <<8127, 769, 8142>>,
    <<8127, 834, 8143>>, <<8134, 837, 8135>>, <<8182, 837, 8183>>, <<8190, 768, 8157>>,
    <<8190, 769, 8158>>, <<8190, 834, 8159>>, <<8592, 824, 8602>>, <<8594, 824, 8603>>,
    <<8596, 824, 8622>>, <<8656, 824, 8653>>, <<8658, 824, 8655>>, <<8660, 824, 8654>>,
    <<8707, 824, 8708>>, <<8712, 824, 8713>>, <<8715, 824, 8716>>, <<8739, 824, 8740>>,
    <<8741, 824, 8742>>, <<8764, 824, 8769>>, <<8771, 824, 8772>>, <<8773, 824, 8775>>,
    <<8776, 824, 8777>>, <<8781, 824, 8813>>, <<8801, 824, 8802>>, <<8804, 824, 8816>>,
    <<8805, 824, 8817>>, <<8818, 824, 8820>>, <<8819, 824, 8821>>, <<8822, 824, 8824>>,
    <<8823, 824, 8825>>, <<8826, 824, 8832>>, <<8827, 824, 8833>>, <<8828, 824, 8928>>,
    <<8829, 824, 8929>>, <<8834, 824, 8836>>, <<8835, 824, 8837>>, <<8838, 824, 8840>>,
    <<8839, 824, 8841>>, <<8849, 824, 8930>>, <<8850, 824, 8931>>, <<8866, 824, 8876>>,
    <<8872, 824, 8877>>, <<8873, 824, 8878>>, <<8875, 824, 8879>>, <<8882, 824, 8938>>,
    <<8883, 824, 8939>>, <<8884, 824, 8940>>, <<8885, 824, 8941>>, <<12358, 12441, 12436>>,
    <<12363, 12441, 12364>>, <<12365, 12441, 12366>>, <<12367, 12441, 12368>>,
    <<12369, 12441, 12370>>, <<12371, 12441, 12372>>, <<12373, 12441, 12374>>,
    <<12375, 12441, 12376>>, <<12377, 12441, 12378>>, <<12379, 12441, 12380>>,
    <<12381, 12441, 12382>>, <<12383, 12441, 12384>>, <<12385, 12441, 12386>>,
    <<12388, 12441, 12389>>, <<12390, 12441, 12391>>, <<12392, 12441, 12393>>,
    <<12399, 12441, 12400>>, <<12399, 12442, 12401>>, <<12402, 12441, 12403>>,
    <<12402, 12442, 12404>>, <<12405, 12441, 12406>>, <<12405, 12442, 12407>>,
    <<12408, 12441, 12409>>, <<12408, 12442, 12410>>, <<12411, 12441, 12412>>,
    <<12411, 12442, 12413>>, <<12445, 12441, 12446>>, <<12454, 12441, 12532>>,
    <<12459, 12441, 12460>>, <<12461, 12441, 12462>>, <<12463, 12441, 12464>>,
    <<12465, 12441, 12466>>, <<12467, 12441, 12468>>, <<12469, 12441, 12470>>,
    <<12471, 12441, 12472>>, <<12473, 12441, 12474>>, <<12475, 12441, 12476>>,
    <<12477, 12441, 12478>>, <<12479, 12441, 12480>>, <<12481, 12441, 12482>>,
    <<12484, 12441, 12485>>, <<12486, 12441, 12487>>, <<12488, 12441, 12489>>,
    <<12495, 12441, 12496>>, <<12495, 12442, 12497>>, <<12498, 12441, 12499>>,
    <<12498, 12442, 12500>>, <<12501, 12441, 12502>>, <<12501, 12442, 12503>>,
    <<12504, 12441, 12505>>, <<12504, 12442, 12506>>, <<12507, 12441, 12508>>,
    <<12507, 12442, 12509>>, <<12527, 12441, 12535>>, <<12528, 12441, 12536>>,
    <<12529, 12441, 12537>>, <<12530, 12441, 12538>>, <<12541, 12441, 12542>>,
    <<69785, 69818, 69786>>, <<69787, 69818, 69788>>, <<69797, 69818, 69803>>,
    <<69937, 69927, 69934>>, <<69938, 69927, 69935>>, <<70471, 70462, 70475>>,
    <<70471, 70487, 70476>>, <<70841, 70832, 70844>>, <<70841, 70842, 70843>>,
    <<70841, 70845, 70846>>, <<71096, 71087, 71098>>, <<71097, 71087, 71099>>,
    <<71989, 71984, 71992>> >>

\* Index of the entry of the sorted table T, between lo and hi, whose first
\* component is c; 0 when there is none.
RECURSIVE TableIndex(_, _, _, _)
TableIndex(T, c, lo, hi) ==
    IF lo > hi THEN 0
    ELSE LET mid == (lo + hi) \div 2 IN
         IF T[mid][1] = c THEN mid
         ELSE IF T[mid][1] < c THEN TableIndex(T, c, mid + 1, hi)
         ELSE TableIndex(T, c, lo, mid - 1)

\* Index of the range of COMBINING_CLASSES, between lo and hi, that holds c;
\* 0 when there is none.
RECURSIVE ClassIndex(_, _, _)
ClassIndex(c, lo, hi) ==
    IF lo > hi THEN 0
    ELSE LET mid == (lo + hi) \div 2 IN
         IF c < COMBINING_CLASSES[mid][1] THEN ClassIndex(c, lo, mid - 1)
         ELSE IF c > COMBINING_CLASSES[mid][2] THEN ClassIndex(c, mid + 1, hi)
         ELSE mid

\* Index of the entry <<first, second, .>> of COMPOSITION_PAIRS, between lo and
\* hi; 0 when there is none.
RECURSIVE PairIndex(_, _, _, _)
PairIndex(first, second, lo, hi) ==
    IF lo > hi THEN 0
    ELSE LET mid == (lo + hi) \div 2
             e == COMPOSITION_PAIRS[mid]
         IN IF e[1] = first /\ e[2] = second THEN mid
            ELSE IF e[1] < first \/ (e[1] = first /\ e[2] < second)
                 THEN PairIndex(first, second, mid + 1, hi)
            ELSE PairIndex(first, second, lo, mid - 1)

\* unicodedata.normalize('NFKC', .), step 1: full compatibility decomposition
\* of one code point.  A Hangul syllable U+AC00..U+D7A3 decomposes into its
\* jamo L V or L V T; nothing below U+00A0 decomposes.
NFKD_char(c) ==
    IF c < 160 THEN <<c>>
    ELSE IF c \in 44032..55203
    THEN LET s == c - 44032
             l == 4352 + (s \div 588)
             v == 4449 + ((s % 588) \div 28)
             t == 4519 + (s % 28)
         IN IF s % 28 = 0 THEN <<l, v>> ELSE <<l, v, t>>
    ELSE LET k == TableIndex(NFKD_TABLE, c, 1, Len(NFKD_TABLE))
         IN IF k = 0 THEN <<c>> ELSE NFKD_TABLE[k][2]

\* unicodedata.combining(chr(c)): the canonical combining class.
combining(c) ==
    IF c < 768 THEN 0
    ELSE LET k == ClassIndex(c, 1, Len(COMBINING_CLASSES))
         IN IF k = 0 THEN 0 ELSE COMBINING_CLASSES[k][3]

\* s with the mark c put in its canonical place: after the last character that
\* is a starter or whose class is at most that of c.
RECURSIVE InsertMark(_, _)
InsertMark(s, c) ==
    IF s = <<>> \/ combining(s[Len(s)]) = 0 \/ combining(s[Len(s)]) <= combining(c)
    THEN Append(s, c)
    ELSE Append(InsertMark(SubSeq(s, 1, Len(s) - 1), c), s[Len(s)])

\* unicodedata.normalize('NFKC', .), step 2: canonical ordering; each run of
\* marks is sorted by combining class, marks of equal class keep their order.
RECURSIVE canonical_order(_, _)
canonical_order(out, rest) ==
    IF rest = <<>> THEN out
    ELSE LET c == Head(rest) IN
         canonical_order(IF combining(c) = 0 THEN Append(out, c) ELSE InsertMark(out, c),
                         Tail(rest))

\* The primary composite of the pair, 0 when the pair has none.  Hangul
\* composes by arithmetic: L V to the syllable LV, LV T to the syllable LVT.
Composite(base, mark) ==
    IF base \in 4352..4370 /\ mark \in 4449..4469
    THEN 44032 + ((base - 4352) * 21 + (mark - 4449)) * 28
    ELSE IF base \in 44032..55203 /\ (base - 44032) % 28 = 0 /\ mark \in 4520..4546
    THEN base + (mark - 4519)
    ELSE LET k == PairIndex(base, mark, 1, Len(COMPOSITION_PAIRS))
         IN IF k = 0 THEN 0 ELSE COMPOSITION_PAIRS[k][3]

HasComposite(base, mark) == Composite(base, mark) # 0

\* Index of the last starter (class 0) of s; 0 when s has none.
RECURSIVE LastStarter(_)
LastStarter(s) ==
    IF s = <<>> THEN 0
    ELSE IF combining(s[Len(s)]) = 0 THEN Len(s)
    ELSE LastStarter(SubSeq(s, 1, Len(s) - 1))

\* Canonical composition of a canonically ordered sequence, left to right: a
\* character composes with the last starter before it when the pair has a
\* composite and no character between the two blocks it (the starter is
\* adjacent, or the last character kept between them has a lower class).
RECURSIVE ComposeOrdered(_, _)
ComposeOrdered(out, rest) ==
    IF rest = <<>> THEN out
    ELSE LET c == Head(rest)
             sp == LastStarter(out)
             last == IF out = <<>> THEN 0 ELSE combining(out[Len(out)])
         IN IF sp > 0 /\ (last = 0 \/ last < combining(c)) /\ HasComposite(out[sp], c)
            THEN ComposeOrdered([out EXCEPT ![sp] = Composite(out[sp], c)], Tail(rest))
            ELSE ComposeOrdered(Append(out, c), Tail(rest))

\* unicodedata.normalize('NFKC', .), steps 2 and 3 on a decomposed sequence:
\* canonical ordering, then canonical composition.
NFC_compose(out, rest) == ComposeOrdered(out, canonical_order(<<>>, rest))

\* unicodedata.normalize returns at once a string that its quick check finds
\* normalized; such are the strings of characters below U+00A0 and CJK unified
\* ideographs U+4E00..U+9FFF: none of them decomposes, is a mark, or is the
\* second character of a composing pair.
Inert(c) == c < 160 \/ c \in 19968..40959
QuickCheck(s) == \A i \in 1..Len(s) : Inert(s[i])

\* unicodedata.normalize('NFKC', .), step 1 on a string: the decompositions of
\* its characters, in order (the two halves of the string, one after the
\* other).
RECURSIVE NFKD(_)
NFKD(s) ==
    IF s = <<>> THEN <<>>
    ELSE IF Len(s) = 1 THEN NFKD_char(s[1])
    ELSE NFKD(SubSeq(s, 1, Len(s) \div 2)) \o NFKD(SubSeq(s, Len(s) \div 2 + 1, Len(s)))

\* Steps 2 and 3 on a decomposed string, piece by piece.  A character of the
\* quick check is a starter that composes with nothing before it, so ordering
\* and composition never reach across the place in front of it: the string is
\* cut there (at the first such place of its second half, or else the last of
\* its first half) and the pieces are normalized one after the other.
RECURSIVE NFC_pieces(_)
NFC_pieces(d) ==
    LET cuts == {i \in 2..Len(d) : Inert(d[i])}
        later == {i \in cuts : i > Len(d) \div 2}
        cut == IF later # {} THEN Min(later) ELSE Max(cuts)
    IN IF cuts = {} THEN NFC_compose(<<>>, d)
       ELSE NFC_pieces(SubSeq(d, 1, cut - 1)) \o NFC_pieces(SubSeq(d, cut, Len(d)))

NFKC(s) == IF QuickCheck(s) THEN s ELSE NFC_pieces(NFKD(s))

fullwidth_to_halfwidth(s) == IF s = <<>> THEN s ELSE NFKC(s)

IsNotWhitespace(c) == c \notin WHITESPACE

\* Mutant of clean_whitespace: only the space U+0020 is deleted.
IsNotSpace(c) == c # 32
clean_whitespace_spaces_only(s) == IF s = <<>> THEN s ELSE SelectSeq(s, IsNotSpace)

\* re.sub(r'[\s　]+', '', text): every whitespace code point is deleted.
clean_whitespace(s) == IF s = <<>> THEN s ELSE SelectSeq(s, IsNotWhitespace)

clean_text(s) == IF s = <<>> THEN s
                 ELSE clean_whitespace(fullwidth_to_halfwidth(s))

----------------------------------------------------------------------------
(* Dates: datetime.date, parse_roc_date, to_roc_date_string *)

MIN_ROC_YEAR == 100
MAX_ROC_YEAR == 120
ROC_OFFSET == 1911

IsLeap(y) == (y % 4 = 0 /\ y % 100 # 0) \/ y % 400 = 0

DaysInMonth(y, m) ==
    IF m = 2 THEN (IF IsLeap(y) THEN 29 ELSE 28)
    ELSE IF m \in {4, 6, 9, 11} THEN 30 ELSE 31

\* datetime.date(y, m, d): the date, or ValueError (ok = FALSE).
date(y, m, d) ==
    IF y \in 1..9999 /\ m \in 1..12 /\ d >= 1 /\ d <= DaysInMonth(y, m)
    THEN [ok |-> TRUE, value |-> [year |-> y, month |-> m, day |-> d]]
    ELSE [ok |-> FALSE]

\* The code points with decimal value 0 (category Nd); each starts a run of
\* ten decimal digits 0..9.
DECIMAL_ZEROS == {
    48, 1632, 1776, 1984, 2406, 2534, 2662, 2790, 2918, 3046, 3174, 3302, 3430, 3558, 3664,
    3792, 3872, 4160, 4240, 6112, 6160, 6470, 6608, 6784, 6800, 6992, 7088, 7232, 7248, 42528,
    43216, 43264, 43472, 43504, 43600, 44016, 65296, 66720, 68912, 69734, 69872, 69942, 70096,
    70384, 70736, 70864, 71248, 71360, 71472, 71904, 72016, 72784, 73040, 73120, 92768, 92864,
    93008, 120782, 120792, 120802, 120812, 120822, 123200, 123632, 125264, 130032 }

\* The code points that str.isdigit() accepts besides the decimal digits
\* (Numeric_Type = Digit: superscripts, circled digits, ...).
OTHER_DIGITS ==
    (178..179) \cup {185} \cup (4969..4977) \cup {6618} \cup {8304} \cup (8308..8313) \cup (8320..8329) \cup (9312..9320) \cup
    (9332..9340) \cup (9352..9360) \cup {9450} \cup (9461..9469) \cup {9471} \cup (10102..10110) \cup (10112..10120) \cup
    (10122..10130) \cup (68160..68163) \cup (69216..69224) \cup (69714..69722) \cup (127232..127242)

\* Code points matched by \d of a str pattern: the decimal digits of every script.
DIGITS == UNION {z..(z + 9) : z \in DECIMAL_ZEROS}
IsDigit(c) == c \in DIGITS
\* int() of one decimal digit.
DigitValue(c) == IF c \in 48..57 THEN c - 48
                 ELSE c - (CHOOSE z \in DECIMAL_ZEROS : c \in z..(z + 9))

\* str.isdigit(): not empty, and every character is a digit.
isdigit(s) == s # <<>> /\ \A i \in 1..Len(s) : s[i] \in DIGITS \cup OTHER_DIGITS

\* sys.get_int_max_str_digits() of the interpreter: int() of a string of more
\* characters raises ValueError.
MAX_STR_DIGITS == 4300

\* The largest number int_within tells from the larger ones.
INT_CAP == 999999999

\* The digits of s from its first digit that is not a zero.
significant(s) ==
    LET nonzero == {i \in 1..Len(s) : DigitValue(s[i]) # 0}
    IN IF nonzero = {} THEN <<>> ELSE SubSeq(s, Min(nonzero), Len(s))

\* The number written by the digits of s, which has no leading zero.
RECURSIVE positional(_)
positional(s) == IF s = <<>> THEN 0
                 ELSE 10 * positional(SubSeq(s, 1, Len(s) - 1)) + DigitValue(s[Len(s)])

\* The number written by the run of decimal digits s when it is at most cap
\* (cap <= INT_CAP), and cap + 1 for every larger number: Python's integers
\* have no width, and the code compares them with small numbers only.
int_within(s, cap) ==
    IF Len(significant(s)) > 9 THEN cap + 1
    ELSE IF positional(significant(s)) > cap THEN cap + 1
    ELSE positional(significant(s))

\* int(s) of a non-empty run of decimal digits: the number (INT_CAP + 1 for
\* every number above INT_CAP), or ValueError (ok = FALSE) when s has more than
\* MAX_STR_DIGITS characters, leading zeros counted.
int(s) ==
    IF Len(s) > MAX_STR_DIGITS THEN [ok |-> FALSE]
    ELSE [ok |-> TRUE, value |-> int_within(s, INT_CAP)]

\* str(n) of an integer.
RECURSIVE str(_)
str(n) == IF n < 0 THEN <<45>> \o str(-n)
          ELSE IF n < 10 THEN <<48 + n>>
          ELSE str(n \div 10) \o <<48 + (n % 10)>>

\* Mutant of Pad2: no padding.
Pad2_unpadded(n) == str(n)

\* format spec 02d
Pad2(n) == IF n >= 0 /\ n < 10 THEN <<48>> \o str(n) ELSE str(n)

\* Index of the last character of the digit run that starts at i (i - 1 when
\* there is no digit at i): what a greedy \d+ takes.
RunEnd(s, i) ==
    LET stops == {j \in i..Len(s) : ~IsDigit(s[j])}
    IN IF i > Len(s) THEN i - 1
       ELSE IF stops = {} THEN Len(s)
       ELSE Min(stops) - 1

LitAt(s, i, lit) ==
    /\ i + Len(lit) - 1 <= Len(s)
    /\ \A k \in 1..Len(lit) : s[i + k - 1] = lit[k]

\* The four patterns prefix (\d+) sep1 (\d+) sep2 (\d+) suffix, in list order:
\*   民國(\d+)年(\d+)月(\d+)日, (\d+)年(\d+)月(\d+)日, (\d+)/(\d+)/(\d+), (\d+)-(\d+)-(\d+)
ROC_DATE_PATTERNS == <<
    [prefix |-> <<27665, 22283>>, sep1 |-> <<24180>>, sep2 |-> <<26376>>, suffix |-> <<26085>>],
    [prefix |-> <<>>,             sep1 |-> <<24180>>, sep2 |-> <<26376>>, suffix |-> <<26085>>],
    [prefix |-> <<>>,             sep1 |-> <<47>>,    sep2 |-> <<47>>,    suffix |-> <<>>],
    [prefix |-> <<>>,             sep1 |-> <<45>>,    sep2 |-> <<45>>,    suffix |-> <<>>] >>

\* A match of pattern p that starts at index i of s, or None.  Every \d+ is
\* followed by a non-digit literal or by the end of the pattern, so each group
\* is the whole digit run.
MatchAt(p, s, i) ==
    LET a == i + Len(p.prefix)
        b == RunEnd(s, a)
        c == b + 1 + Len(p.sep1)
        d == RunEnd(s, c)
        e == d + 1 + Len(p.sep2)
        f == RunEnd(s, e)
    IN IF /\ LitAt(s, i, p.prefix)
          /\ b >= a /\ LitAt(s, b + 1, p.sep1)
          /\ d >= c /\ LitAt(s, d + 1, p.sep2)
          /\ f >= e /\ LitAt(s, f + 1, p.suffix)
       THEN Some([g1 |-> SubSeq(s, a, b), g2 |-> SubSeq(s, c, d), g3 |-> SubSeq(s, e, f)])
       ELSE None

\* The indices at which the leftmost match of p in s can start: where the
\* prefix stands and, for a pattern that starts with \d+, where a digit run
\* starts (a match that starts inside a digit run comes with the match that
\* starts at the front of the run).
SearchStarts(p, s) ==
    {i \in 1..Len(s) : /\ LitAt(s, i, p.prefix)
                        /\ (p.prefix # <<>> \/ i = 1 \/ ~IsDigit(s[i - 1]))}

\* pattern.search(s): the match at the leftmost index that has one.
Search(p, s) ==
    LET hits == {i \in SearchStarts(p, s) : MatchAt(p, s, i) # None}
    IN IF hits = {} THEN None ELSE MatchAt(p, s, Min(hits))

\* The body of the for loop of parse_roc_date from pattern k on.  The three
\* int() calls and date() stand in the try block: when one of them raises
\* ValueError the except clause goes on to the next pattern.
RECURSIVE TryPatterns(_, _)
TryPatterns(s, k) ==
    IF k > Len(ROC_DATE_PATTERNS) THEN None
    ELSE LET match == Search(ROC_DATE_PATTERNS[k], s) IN
         IF match = None THEN TryPatterns(s, k + 1)
         ELSE LET roc_year == int(match[1].g1)
                  month == int(match[1].g2)
                  day == int(match[1].g3)
                  made == date(roc_year.value + ROC_OFFSET, month.value, day.value)
              IN IF ~roc_year.ok THEN TryPatterns(s, k + 1)      \* except ValueError: continue
                 ELSE IF ~month.ok THEN TryPatterns(s, k + 1)    \* except ValueError: continue
                 ELSE IF ~day.ok THEN TryPatterns(s, k + 1)      \* except ValueError: continue
                 ELSE IF ~(MIN_ROC_YEAR <= roc_year.value /\ roc_year.value <= MAX_ROC_YEAR)
                 THEN TryPatterns(s, k + 1)
                 ELSE IF ~(1 <= month.value /\ month.value <= 12) THEN TryPatterns(s, k + 1)
                 ELSE IF ~(1 <= day.value /\ day.value <= 31) THEN TryPatterns(s, k + 1)
                 ELSE IF made.ok THEN Some(made.value)
                 ELSE TryPatterns(s, k + 1)     \* except ValueError: continue

\* Mutant of parse_roc_date: the patterns run on the string as given.
parse_roc_date_uncleaned(date_str) ==
    IF date_str = <<>> THEN None ELSE TryPatterns(date_str, 1)

parse_roc_date(date_str) ==
    IF date_str = <<>> THEN None ELSE TryPatterns(clean_text(date_str), 1)

\* Mutants of to_roc_date_string: the Western year is written as it is; the
\* day is written before the month.
to_roc_date_string_western_year(western_date) ==
    IF western_date = None THEN <<>>
    ELSE str(western_date[1].year) \o <<45>> \o Pad2(western_date[1].month)
             \o <<45>> \o Pad2(western_date[1].day)

to_roc_date_string_day_first(western_date) ==
    IF western_date = None THEN <<>>
    ELSE str(western_date[1].year - ROC_OFFSET) \o <<45>> \o Pad2(western_date[1].day)
             \o <<45>> \o Pad2(western_date[1].month)

\* western_date is an Optional[date].
to_roc_date_string(western_date) ==
    IF western_date = None THEN <<>>
    ELSE LET roc_year == western_date[1].year - ROC_OFFSET
         IN str(roc_year) \o <<45>> \o Pad2(western_date[1].month)
                \o <<45>> \o Pad2(western_date[1].day)

\* str(d) of a datetime.date: YYYY-MM-DD, the year in four digits.
Pad4(n) == IF n < 10 THEN <<48, 48, 48>> \o str(n)
           ELSE IF n < 100 THEN <<48, 48>> \o str(n)
           ELSE IF n < 1000 THEN <<48>> \o str(n) ELSE str(n)
isoformat(d) == Pad4(d.year) \o <<45>> \o Pad2(d.month) \o <<45>> \o Pad2(d.day)

\* parsed > today on datetime.date values.
DateAfter(a, b) ==
    \/ a.year > b.year
    \/ a.year = b.year /\ a.month > b.month
    \/ a.year = b.year /\ a.month = b.month /\ a.day > b.day

\* "Date string is empty", "Cannot parse date: ", "Date is in the future: "
MSG_DATE_EMPTY == <<68, 97, 116, 101, 32, 115, 116, 114, 105, 110, 103, 32, 105, 115, 32, 101, 109, 112, 116, 121>>
MSG_CANNOT_PARSE_PREFIX == <<67, 97, 110, 110, 111, 116, 32, 112, 97, 114, 115, 101, 32, 100, 97, 116, 101, 58, 32>>
MSG_FUTURE_PREFIX == <<68, 97, 116, 101, 32, 105, 115, 32, 105, 110, 32, 116, 104, 101, 32, 102, 117, 116, 117, 114, 101, 58, 32>>

\* Mutant of validate_roc_date: a date equal to today is rejected too.
validate_roc_date_rejects_today(date_str, current) ==
    IF date_str = <<>> THEN <<FALSE, MSG_DATE_EMPTY>>
    ELSE LET parsed_date == parse_roc_date(date_str) IN
         IF parsed_date = None THEN <<FALSE, MSG_CANNOT_PARSE_PREFIX \o date_str>>
         ELSE IF ~DateAfter(current, parsed_date[1])
              THEN <<FALSE, MSG_FUTURE_PREFIX \o isoformat(parsed_date[1])>>
         ELSE <<TRUE, <<>>>>

\* validate_roc_date; current is the value of date.today() at the call.
validate_roc_date(date_str, current) ==
    IF date_str = <<>> THEN <<FALSE, MSG_DATE_EMPTY>>
    ELSE LET parsed_date == parse_roc_date(date_str) IN
         IF parsed_date = None THEN <<FALSE, MSG_CANNOT_PARSE_PREFIX \o date_str>>
         ELSE IF DateAfter(parsed_date[1], current)
              THEN <<FALSE, MSG_FUTURE_PREFIX \o isoformat(parsed_date[1])>>
         ELSE <<TRUE, <<>>>>

----------------------------------------------------------------------------
(* Address parsing: chinese_to_arabic, parse_address *)

IsCJK(c) == c \in 19968..40959                    \* [一-鿿]

CITY_SUFFIX == {24066, 32291}                     \* [市縣]
DISTRICT_SUFFIX == {21312, 37129, 37806, 24066}   \* [區鄉鎮市]
VILLAGE_SUFFIX == {37324, 26449}                  \* [里村]
ROAD_SUFFIX == {36335, 34903, 36947}              \* [路街道]
NEIGHBORHOOD_GLYPH == <<37168>>                   \* 鄰
SECTION_GLYPH == <<27573>>                        \* 段
LANE_GLYPH == <<24055>>                           \* 巷
ALLEY_GLYPH == <<24324>>                          \* 弄
NUMBER_GLYPH == <<34399>>                         \* 號
FLOOR_GLYPH == <<27155>>                          \* 樓
FLOOR_DASH_GLYPHS == <<27155, 20043>>             \* 樓之
TEN == <<21313>>                                  \* 十

\* [一二三四五六七八九十]
NUMERALS == {19968, 20108, 19977, 22235, 20116, 20845, 19971, 20843, 20061, 21313}
\* [\d一二三四五六七八九十]
DIGITS_OR_NUMERALS == DIGITS \cup NUMERALS

\* CHINESE_DIGIT: 零 一 二 三 四 五 六 七 八 九 十
CHINESE_DIGIT ==
    [c \in {38646, 19968, 20108, 19977, 22235, 20116, 20845, 19971, 20843, 20061, 21313} |->
        CASE c = 38646 -> 0 [] c = 19968 -> 1 [] c = 20108 -> 2 [] c = 19977 -> 3
          [] c = 22235 -> 4 [] c = 20116 -> 5 [] c = 20845 -> 6 [] c = 19971 -> 7
          [] c = 20843 -> 8 [] c = 20061 -> 9 [] c = 21313 -> 10]

\* CHINESE_DIGIT.get(key, 0) for a str key: only one-character keys exist.
DigitGet0(key) ==
    IF Len(key) = 1 /\ key[1] \in DOMAIN CHINESE_DIGIT THEN CHINESE_DIGIT[key[1]] ELSE 0

\* Index of the first c in s at or after index from; Len(s) + 1 when none.
RECURSIVE IndexFrom(_, _, _)
IndexFrom(s, c, from) ==
    IF from > Len(s) THEN Len(s) + 1
    ELSE IF s[from] = c THEN from ELSE IndexFrom(s, c, from + 1)

\* Mutant of chinese_to_arabic: an empty tens-part counts as one, not ten.
chinese_to_arabic_ten_as_one(chinese) ==
    IF chinese = <<>> THEN chinese
    ELSE IF isdigit(chinese) THEN chinese
    ELSE IF Len(chinese) = 1
         THEN (IF chinese[1] \in DOMAIN CHINESE_DIGIT
               THEN str(CHINESE_DIGIT[chinese[1]]) ELSE chinese)
    ELSE IF \E i \in 1..Len(chinese) : chinese[i] = TEN[1]
         THEN LET p1 == IndexFrom(chinese, TEN[1], 1)
                  p2 == IndexFrom(chinese, TEN[1], p1 + 1)
                  tens == SubSeq(chinese, 1, p1 - 1)
                  ones == SubSeq(chinese, p1 + 1, p2 - 1)
                  base == IF tens = <<>> THEN 1 ELSE DigitGet0(tens) * 10
              IN str(IF ones # <<>> THEN base + DigitGet0(ones) ELSE base)
    ELSE chinese

chinese_to_arabic(chinese) ==
    IF chinese = <<>> THEN chinese
    ELSE IF isdigit(chinese) THEN chinese
    ELSE IF Len(chinese) = 1
         THEN (IF chinese[1] \in DOMAIN CHINESE_DIGIT
               THEN str(CHINESE_DIGIT[chinese[1]]) ELSE chinese)
    ELSE IF \E i \in 1..Len(chinese) : chinese[i] = TEN[1]
         THEN LET p1 == IndexFrom(chinese, TEN[1], 1)
                  p2 == IndexFrom(chinese, TEN[1], p1 + 1)
                  tens == SubSeq(chinese, 1, p1 - 1)              \* parts[0]
                  ones == SubSeq(chinese, p1 + 1, p2 - 1)         \* parts[1]
                  base == IF tens = <<>> THEN 10 ELSE DigitGet0(tens) * 10
              IN str(IF ones # <<>> THEN base + DigitGet0(ones) ELSE base)
    ELSE chinese

AllCJK(s, lo, hi) == \A k \in lo..hi : IsCJK(s[k])

\* Mutant of CityDistrictMatch: both groups greedy, the longest city run that
\* a district run can follow and the longest district run after it.
CityDistrictMatch_greedy(s) ==
    LET DistrictEnds(i) == {j \in (i + 2)..Len(s) :
                               s[j] \in DISTRICT_SUFFIX /\ AllCJK(s, i + 1, j - 1)}
        CityEnds == {i \in 2..Len(s) :
                        s[i] \in CITY_SUFFIX /\ AllCJK(s, 1, i - 1) /\ DistrictEnds(i) # {}}
    IN IF CityEnds = {} THEN None
       ELSE Some(<<Max(CityEnds), Max(DistrictEnds(Max(CityEnds)))>>)

\* city_district_pattern.match(s): ^([CJK]+?[市縣])([CJK]+?[區鄉鎮市]); the lazy
\* runs give the earliest city end that a district can follow, then the
\* earliest district end.  The result is <<city end, district end>> or None.
CityDistrictMatch(s) ==
    LET DistrictEnds(i) == {j \in (i + 2)..Len(s) :
                               s[j] \in DISTRICT_SUFFIX /\ AllCJK(s, i + 1, j - 1)}
        CityEnds == {i \in 2..Len(s) :
                        s[i] \in CITY_SUFFIX /\ AllCJK(s, 1, i - 1) /\ DistrictEnds(i) # {}}
    IN IF CityEnds = {} THEN None
       ELSE Some(<<Min(CityEnds), Min(DistrictEnds(Min(CityEnds)))>>)

\* End of the greedy group ([CJK]+[suffix]) anchored at the start of s: the
\* last suffix glyph of the leading CJK run that has a CJK character before
\* it; 0 when the group does not match.
GreedyNameEnd(s, suffix) ==
    LET ends == {v \in 2..Len(s) : s[v] \in suffix /\ AllCJK(s, 1, v)}
    IN IF ends = {} THEN 0 ELSE Max(ends)

\* End of a group (\d+鄰) or ([numerals]+段) that starts at index i: a greedy
\* run of the class followed by the glyph; i - 1 when it does not match.
RECURSIVE ClassRunEnd(_, _, _)
ClassRunEnd(s, i, class) ==
    IF i <= Len(s) /\ s[i] \in class THEN ClassRunEnd(s, i + 1, class) ELSE i - 1

RunThenGlyphEnd(s, i, class, glyph) ==
    LET b == ClassRunEnd(s, i, class)
    IN IF b >= i /\ LitAt(s, b + 1, glyph) THEN b + Len(glyph) ELSE i - 1

\* Mutant of lstrip0: nothing is stripped.
lstrip0_kept(s) == SubSeq(s, 1, Len(s))

\* str.lstrip('0')
RECURSIVE lstrip0(_)
lstrip0(s) == IF s # <<>> /\ Head(s) = 48 THEN lstrip0(Tail(s)) ELSE s

\* Mutant of SearchRunBefore: the rightmost match is taken.
SearchRunBefore_rightmost(s, class, glyph) ==
    LET hits == {i \in 1..Len(s) : RunThenGlyphEnd(s, i, class, glyph) >= i}
    IN IF hits = {} THEN None
       ELSE Some(SubSeq(s, Max(hits), ClassRunEnd(s, Max(hits), class)))

\* Mutant of SearchRunBefore: the group takes the glyph too.
SearchRunBefore_with_glyph(s, class, glyph) ==
    LET hits == {i \in 1..Len(s) : RunThenGlyphEnd(s, i, class, glyph) >= i}
    IN IF hits = {} THEN None
       ELSE Some(SubSeq(s, Min(hits), RunThenGlyphEnd(s, Min(hits), class, glyph)))

\* PATTERN.search(s).group(1) for a pattern (class+)glyph: the leftmost run of
\* the class that ends right before the glyph; None when there is no match.
SearchRunBefore(s, class, glyph) ==
    LET hits == {i \in 1..Len(s) : RunThenGlyphEnd(s, i, class, glyph) >= i}
    IN IF hits = {} THEN None
       ELSE Some(SubSeq(s, Min(hits), ClassRunEnd(s, Min(hits), class)))

\* FLOOR_DASH_PATTERN.search(s).group(1): 樓之(\d+|[numerals]+), the digit
\* alternative first.
SearchFloorDash(s) ==
    LET AltEnd(i) == IF ClassRunEnd(s, i, DIGITS) >= i THEN ClassRunEnd(s, i, DIGITS)
                     ELSE ClassRunEnd(s, i, NUMERALS)
        hits == {i \in 1..Len(s) :
                    LitAt(s, i, FLOOR_DASH_GLYPHS) /\ AltEnd(i + 2) >= i + 2}
    IN IF hits = {} THEN None
       ELSE Some(SubSeq(s, Min(hits) + 2, AltEnd(Min(hits) + 2)))

\* The body of parse_address from the city/district match on, on
\* cleaned = clean_text(full_address).
parse_cleaned_address(full_address, cleaned) ==
    LET city_match == CityDistrictMatch(cleaned)
         IN IF city_match = None THEN None
            ELSE LET cityEnd == city_match[1][1]
                     districtEnd == city_match[1][2]
                     remaining == SubSeq(cleaned, districtEnd + 1, Len(cleaned))
                     \* village_neigh_pattern: ^([CJK]+[里村])?(\d+鄰)?
                     vEnd == GreedyNameEnd(remaining, VILLAGE_SUFFIX)
                     nEnd == RunThenGlyphEnd(remaining, vEnd + 1, DIGITS, NEIGHBORHOOD_GLYPH)
                     village == IF vEnd > 0 THEN Some(SubSeq(remaining, 1, vEnd)) ELSE None
                     neighborhood ==
                         IF nEnd > vEnd
                         THEN LET digits == lstrip0(SubSeq(remaining, vEnd + 1, nEnd - 1))
                              IN Some(IF digits = <<>> THEN <<48>> ELSE digits)
                         ELSE None
                     remaining2 == SubSeq(remaining, nEnd + 1, Len(remaining))
                     \* road_section_pattern: ^([CJK]+[路街道])([numerals]+段)?
                     rEnd == GreedyNameEnd(remaining2, ROAD_SUFFIX)
                     sEnd == RunThenGlyphEnd(remaining2, rEnd + 1, NUMERALS, SECTION_GLYPH)
                     road == IF rEnd > 0 THEN Some(SubSeq(remaining2, 1, rEnd)) ELSE None
                     section == IF rEnd > 0 /\ sEnd > rEnd
                                THEN Some(SubSeq(remaining2, rEnd + 1, sEnd)) ELSE None
                     floor_match == SearchRunBefore(cleaned, DIGITS_OR_NUMERALS, FLOOR_GLYPH)
                     floor_dash_match == SearchFloorDash(cleaned)
                 IN Some([city |-> SubSeq(cleaned, 1, cityEnd),
                          district |-> SubSeq(cleaned, cityEnd + 1, districtEnd),
                          village |-> village,
                          neighborhood |-> neighborhood,
                          road |-> road,
                          section |-> section,
                          lane |-> SearchRunBefore(cleaned, DIGITS, LANE_GLYPH),
                          alley |-> SearchRunBefore(cleaned, DIGITS, ALLEY_GLYPH),
                          number |-> SearchRunBefore(cleaned, DIGITS, NUMBER_GLYPH),
                          floor |-> IF floor_match = None THEN None
                                    ELSE Some(chinese_to_arabic(floor_match[1])),
                          floor_dash |-> IF floor_dash_match = None THEN None
                                         ELSE Some(chinese_to_arabic(floor_dash_match[1])),
                          raw_address |-> full_address])

parse_address(full_address) ==
    IF full_address = <<>> THEN None
    ELSE parse_cleaned_address(full_address, clean_text(full_address))

\* "Address is empty", "Address too short: ", "Cannot parse address: ",
\* "Missing city", "Missing district"
MSG_ADDRESS_EMPTY == <<65, 100, 100, 114, 101, 115, 115, 32, 105, 115, 32, 101, 109, 112, 116, 121>>
MSG_ADDRESS_TOO_SHORT_PREFIX == <<65, 100, 100, 114, 101, 115, 115, 32, 116, 111, 111, 32, 115, 104, 111, 114, 116, 58, 32>>
MSG_CANNOT_PARSE_ADDRESS_PREFIX == <<67, 97, 110, 110, 111, 116, 32, 112, 97, 114, 115, 101, 32, 97, 100, 100, 114, 101, 115, 115, 58, 32>>
MSG_MISSING_CITY == <<77, 105, 115, 115, 105, 110, 103, 32, 99, 105, 116, 121>>
MSG_MISSING_DISTRICT == <<77, 105, 115, 115, 105, 110, 103, 32, 100, 105, 115, 116, 114, 105, 99, 116>>

\* Mutant of validate_address: the length of the address is not looked at.
validate_address_any_length(full_address) ==
    IF full_address = <<>> THEN <<FALSE, MSG_ADDRESS_EMPTY>>
    ELSE LET parts == parse_address(full_address) IN
         IF parts = None THEN <<FALSE, MSG_CANNOT_PARSE_ADDRESS_PREFIX \o full_address>>
         ELSE IF parts[1].city = <<>> THEN <<FALSE, MSG_MISSING_CITY>>
         ELSE IF parts[1].district = <<>> THEN <<FALSE, MSG_MISSING_DISTRICT>>
         ELSE <<TRUE, <<>>>>

validate_address(full_address) ==
    IF full_address = <<>> THEN <<FALSE, MSG_ADDRESS_EMPTY>>
    ELSE IF Len(full_address) < 5
         THEN <<FALSE, MSG_ADDRESS_TOO_SHORT_PREFIX \o full_address>>
    ELSE LET parts == parse_address(full_address) IN
         IF parts = None THEN <<FALSE, MSG_CANNOT_PARSE_ADDRESS_PREFIX \o full_address>>
         ELSE IF parts[1].city = <<>> THEN <<FALSE, MSG_MISSING_CITY>>
         ELSE IF parts[1].district = <<>> THEN <<FALSE, MSG_MISSING_DISTRICT>>
         ELSE <<TRUE, <<>>>>


----------------------------------------------------------------------------
(* The validation pipeline: process_record, process_records *)

\* Mutant of DATE_FORMAT: the reserved member is used for date failures.
DATE_FORMAT_reserved == "SCHEMA_MISMATCH"

\* ErrorType members
DATE_FORMAT == "DATE_FORMAT"
MISSING_FIELD == "MISSING_FIELD"
INVALID_ADDRESS == "INVALID_ADDRESS"
SCHEMA_MISMATCH == "SCHEMA_MISMATCH"
ErrorType == {DATE_FORMAT, MISSING_FIELD, INVALID_ADDRESS, SCHEMA_MISMATCH}

\* "Missing full_address", "Missing register_type", "Cannot parse address: ",
\* "Missing city or district", "Cannot parse date: "
MSG_MISSING_FULL_ADDRESS == <<77, 105, 115, 115, 105, 110, 103, 32, 102, 117, 108, 108, 95, 97, 100, 100, 114, 101, 115, 115>>
MSG_MISSING_REGISTER_TYPE == <<77, 105, 115, 115, 105, 110, 103, 32, 114, 101, 103, 105, 115, 116, 101, 114, 95, 116, 121, 112, 101>>
MSG_CANNOT_PARSE_ADDRESS == <<67, 97, 110, 110, 111, 116, 32, 112, 97, 114, 115, 101, 32, 97, 100, 100, 114, 101, 115, 115, 58, 32>>
MSG_MISSING_CITY_OR_DISTRICT == <<77, 105, 115, 115, 105, 110, 103, 32, 99, 105, 116, 121, 32, 111, 114, 32, 100, 105, 115, 116, 114, 105, 99, 116>>
\* Mutant of MSG_CANNOT_PARSE_DATE: "Missing register_date"
MSG_CANNOT_PARSE_DATE_missing == <<77, 105, 115, 115, 105, 110, 103, 32, 114, 101, 103, 105, 115, 116, 101, 114, 95, 100, 97, 116, 101>>
MSG_CANNOT_PARSE_DATE == <<67, 97, 110, 110, 111, 116, 32, 112, 97, 114, 115, 101, 32, 100, 97, 116, 101, 58, 32>>

\* raw.get(key, '')
raw_get(r, key) == IF key \in DOMAIN r THEN r[key] ELSE <<>>

\* Mutant of QuarantineRecord: the record keeps the cleaned fields, not the
\* raw input.
QuarantineRecord_cleaned(raw_data, error_type, validation_error) ==
    [raw_data |-> [k \in DOMAIN raw_data |-> clean_text(raw_data[k])],
     error_type |-> error_type,
     validation_error |-> validation_error, source_url |-> None]

\* QuarantineRecord(raw_data=, error_type=, validation_error=)
QuarantineRecord(raw_data, error_type, validation_error) ==
    [raw_data |-> raw_data, error_type |-> error_type,
     validation_error |-> validation_error, source_url |-> None]

\* a or b on str values
\* Mutant of StrOr: the second value is appended to the first.
StrOr_appended(a, b) == a \o b

\* Mutant of StrOr: the second value is taken when it is not empty.
StrOr_second_first(a, b) == IF b # <<>> THEN b ELSE a

StrOr(a, b) == IF a # <<>> THEN a ELSE b

\* Mutants of process_record: a date that does not parse returns no record at
\* all; the date gate stands before the address gates.
process_record_no_date_quarantine(r) ==
    LET full_address == clean_text(raw_get(r, "full_address"))
        register_date == clean_text(raw_get(r, "register_date"))
        register_type == clean_text(raw_get(r, "register_type"))
        city == raw_get(r, "city")
        district == raw_get(r, "district")
        address_parts == parse_address(full_address)
        final_city == StrOr(address_parts[1].city, city)
        final_district == StrOr(address_parts[1].district, district)
        assignment_date == parse_roc_date(register_date)
    IN IF full_address = <<>>
       THEN <<None, Some(QuarantineRecord(r, MISSING_FIELD, MSG_MISSING_FULL_ADDRESS))>>
       ELSE IF register_type = <<>>
       THEN <<None, Some(QuarantineRecord(r, MISSING_FIELD, MSG_MISSING_REGISTER_TYPE))>>
       ELSE IF address_parts = None
       THEN <<None, Some(QuarantineRecord(r, INVALID_ADDRESS,
                                          MSG_CANNOT_PARSE_ADDRESS \o full_address))>>
       ELSE IF final_city = <<>> \/ final_district = <<>>
       THEN <<None, Some(QuarantineRecord(r, MISSING_FIELD, MSG_MISSING_CITY_OR_DISTRICT))>>
       ELSE IF assignment_date = None
       THEN <<None, None>>
       ELSE <<Some([city |-> final_city,
                    district |-> final_district,
                    full_address |-> full_address,
                    address_parts |-> address_parts[1],
                    assignment_date |-> assignment_date[1],
                    assignment_date_roc |-> to_roc_date_string(assignment_date),
                    assignment_type |-> register_type,
                    raw_data |-> r]),
              None>>

process_record_date_first(r) ==
    LET full_address == clean_text(raw_get(r, "full_address"))
        register_date == clean_text(raw_get(r, "register_date"))
        register_type == clean_text(raw_get(r, "register_type"))
        city == raw_get(r, "city")
        district == raw_get(r, "district")
        address_parts == parse_address(full_address)
        final_city == StrOr(address_parts[1].city, city)
        final_district == StrOr(address_parts[1].district, district)
        assignment_date == parse_roc_date(register_date)
    IN IF full_address = <<>>
       THEN <<None, Some(QuarantineRecord(r, MISSING_FIELD, MSG_MISSING_FULL_ADDRESS))>>
       ELSE IF register_type = <<>>
       THEN <<None, Some(QuarantineRecord(r, MISSING_FIELD, MSG_MISSING_REGISTER_TYPE))>>
       ELSE IF assignment_date = None
       THEN <<None, Some(QuarantineRecord(r, DATE_FORMAT,
                                          MSG_CANNOT_PARSE_DATE \o register_date))>>
       ELSE IF address_parts = None
       THEN <<None, Some(QuarantineRecord(r, INVALID_ADDRESS,
                                          MSG_CANNOT_PARSE_ADDRESS \o full_address))>>
       ELSE IF final_city = <<>> \/ final_district = <<>>
       THEN <<None, Some(QuarantineRecord(r, MISSING_FIELD, MSG_MISSING_CITY_OR_DISTRICT))>>
       ELSE <<Some([city |-> final_city,
                    district |-> final_district,
                    full_address |-> full_address,
                    address_parts |-> address_parts[1],
                    assignment_date |-> assignment_date[1],
                    assignment_date_roc |-> to_roc_date_string(assignment_date),
                    assignment_type |-> register_type,
                    raw_data |-> r]),
              None>>

\* The returned tuple is <<ProcessedRecord or None, QuarantineRecord or None>>.
\* The body of process_record after the parsing, on the cleaned fields,
\* address_parts = parse_address(full_address) and
\* assignment_date = parse_roc_date(register_date).
process_parsed_record(r, full_address, register_date, register_type, address_parts, assignment_date) ==
    LET city == raw_get(r, "city")
        district == raw_get(r, "district")
        final_city == StrOr(address_parts[1].city, city)
        final_district == StrOr(address_parts[1].district, district)
    IN IF full_address = <<>>
       THEN <<None, Some(QuarantineRecord(r, MISSING_FIELD, MSG_MISSING_FULL_ADDRESS))>>
       ELSE IF register_type = <<>>
       THEN <<None, Some(QuarantineRecord(r, MISSING_FIELD, MSG_MISSING_REGISTER_TYPE))>>
       ELSE IF address_parts = None
       THEN <<None, Some(QuarantineRecord(r, INVALID_ADDRESS,
                                          MSG_CANNOT_PARSE_ADDRESS \o full_address))>>
       ELSE IF final_city = <<>> \/ final_district = <<>>
       THEN <<None, Some(QuarantineRecord(r, MISSING_FIELD, MSG_MISSING_CITY_OR_DISTRICT))>>
       ELSE IF assignment_date = None
       THEN <<None, Some(QuarantineRecord(r, DATE_FORMAT,
                                          MSG_CANNOT_PARSE_DATE \o register_date))>>
       ELSE <<Some([city |-> final_city,
                    district |-> final_district,
                    full_address |-> full_address,
                    address_parts |-> address_parts[1],
                    assignment_date |-> assignment_date[1],
                    assignment_date_roc |-> to_roc_date_string(assignment_date),
                    assignment_type |-> register_type,
                    raw_data |-> r]),
              None>>

\* The body of process_record after the cleaning of the three fields.
process_cleaned_record(r, full_address, register_date, register_type) ==
    process_parsed_record(r, full_address, register_date, register_type,
                          parse_address(full_address), parse_roc_date(register_date))

process_record(r) ==
    process_cleaned_record(r, clean_text(raw_get(r, "full_address")),
                           clean_text(raw_get(r, "register_date")),
                           clean_text(raw_get(r, "register_type")))

\* Mutant of AppendResult: the new record is put at the front of its list.
AppendResult_at_front(lists, result) ==
    <<IF result[1] # None THEN <<result[1][1]>> \o lists[1] ELSE lists[1],
      IF result[2] # None THEN <<result[2][1]>> \o lists[2] ELSE lists[2]>>

\* if success: processed.append(success); if failure: quarantined.append(failure)
\* on lists = <<processed, quarantined>> and result = <<success, failure>>.
AppendResult(lists, result) ==
    LET success == result[1]
        failure == result[2]
    IN <<IF success # None THEN Append(lists[1], success[1]) ELSE lists[1],
         IF failure # None THEN Append(lists[2], failure[1]) ELSE lists[2]>>

\* One iteration of the loop of process_records on the lists so far.
LoopBody(lists, r) == AppendResult(lists, process_record(r))

\* A loop passes on what its iterations so far have built: v is computed
\* before the next iteration starts.
Evaluated(v) == v = v

\* for raw in records, from the record at index i on, with the lists that
\* the iterations before it have built.
RECURSIVE process_records_from(_, _, _)
process_records_from(lists, recs, i) ==
    IF Evaluated(lists) /\ i > Len(recs) THEN lists
    ELSE process_records_from(LoopBody(lists, recs[i]), recs, i + 1)

\* process_records(records): the lists after the loop has run over records.
process_records(recs) == process_records_from(<<<<>>, <<>>>>, recs, 1)


----------------------------------------------------------------------------
(* Inputs *)

\* a, space, ideographic space U+3000, combining acute U+0301, full-width 1,
\* a with acute U+00E1, 市, tab, newline, full-width A, combining grave U+0300,
\* circled digit one U+2460, Devanagari digit one U+0967
TEXT_ALPHABET == {97, 32, 12288, 769, 65297, 225, 24066, 9, 10, 65313, 768, 9312, 2407}

\* 臺北市大安區信義路四段100巷5弄10號3樓之1
ADDR_FULL == <<33274, 21271, 24066, 22823, 23433, 21312, 20449, 32681, 36335, 22235, 27573,
               49, 48, 48, 24055, 53, 24324, 49, 48, 34399, 51, 27155, 20043, 49>>
\* " 臺北市　大安區 信義路１００巷５號" (spaces, ideographic space, full-width digits)
ADDR_WIDE == <<32, 33274, 21271, 24066, 12288, 22823, 23433, 21312, 32, 20449, 32681, 36335,
               65297, 65296, 65296, 24055, 65301, 34399>>
\* 桃園縣龜山鄉富台村019鄰十樓之二
ADDR_VILLAGE == <<26691, 22290, 32291, 40860, 23665, 37129, 23500, 21488, 26449,
                  48, 49, 57, 37168, 21313, 27155, 20043, 20108>>
\* 高雄市鳳山區
ADDR_SHORT == <<39640, 38596, 24066, 40179, 23665, 21312>>
\* 臺北市大安區a ́ (a, space, combining acute after the district)
ADDR_MARK == <<33274, 21271, 24066, 22823, 23433, 21312, 97, 32, 769>>
\* 大安區信義路 (no city), 臺北市 (no district), abc
ADDR_NO_CITY == <<22823, 23433, 21312, 20449, 32681, 36335>>
ADDR_NO_DISTRICT == <<33274, 21271, 24066>>
ADDR_LATIN == <<97, 98, 99>>
BLANKS == <<32, 12288>>

\* 門牌初編, and the same with a space inside
TYPE_INITIAL == <<38272, 29260, 21021, 32232>>
TYPE_SPACED == <<38272, 29260, 32, 21021, 32232>>

\* not-a-date
NOT_A_DATE == <<110, 111, 116, 45, 97, 45, 100, 97, 116, 101>>
\* "１１４／１２／３０" (full-width), "114 - 12 - 30", "99/1/1,114-1-1"
DATE_WIDE == <<65297, 65297, 65300, 65295, 65297, 65298, 65295, 65299, 65296>>
DATE_SPACED == <<49, 49, 52, 32, 45, 32, 49, 50, 32, 45, 32, 51, 48>>
DATE_TWO == <<57, 57, 47, 49, 47, 49, 44, 49, 49, 52, 45, 49, 45, 49>>

\* The text of year y, month m, day d in the format of pattern k.
DateText(k, y, m, d) ==
    LET p == ROC_DATE_PATTERNS[k]
    IN p.prefix \o str(y) \o p.sep1 \o str(m) \o p.sep2 \o str(d) \o p.suffix

SampleYears == {MIN_ROC_YEAR - YearSlack, MIN_ROC_YEAR, 114, MAX_ROC_YEAR, MAX_ROC_YEAR + YearSlack}
SampleMonths == {0, 2, 12, 13}
SampleDays == {0, 1, 29, 30, 31, 32}

\* 臺北市大安區信義路१००巷५號 (Devanagari digits)
ADDR_DEVANAGARI == <<33274, 21271, 24066, 22823, 23433, 21312, 20449, 32681, 36335, 2407, 2406, 2406, 24055, 2411, 34399>>
\* 臺北市大安區仁愛里5鄰信義路, with 里 written as the compatibility ideograph U+F9E9
ADDR_COMPAT == <<33274, 21271, 24066, 22823, 23433, 21312, 20161, 24859, 63977, 53, 37168, 20449, 32681, 36335>>
\* "११४/१२/३०" (Devanagari digits), "①①④/12/30" (circled digits)
DATE_DEVANAGARI == <<2407, 2407, 2410, 47, 2407, 2408, 47, 2409, 2406>>
DATE_CIRCLED == <<9312, 9312, 9315, 47, 49, 50, 47, 51, 48>>

\* Date texts with a digit group at the limit of int(): n zeros; 民國 and a
\* year of 4301 digits, "民國0...0114年12月30日"; a year of 4301 digits and a
\* second date, "0...0114/12/30,114-1-1"; a year of 4300 digits,
\* "0...0114/12/30".
Zeros(n) == [i \in 1..n |-> 48]
DATE_LONG_YEAR == <<27665, 22283>> \o Zeros(MAX_STR_DIGITS - 2) \o DateText(2, 114, 12, 30)
DATE_LONG_THEN_SHORT ==
    Zeros(MAX_STR_DIGITS - 2) \o DateText(3, 114, 12, 30) \o <<44>> \o DateText(4, 114, 1, 1)
DATE_LONGEST_READ == Zeros(MAX_STR_DIGITS - 3) \o DateText(3, 114, 12, 30)
LongDates == {Some(DATE_LONG_YEAR), Some(DATE_LONG_THEN_SHORT), Some(DATE_LONGEST_READ)}

\* A field of a raw record: None is a missing key, Some(s) the string s.
AddrPool == {None, Some(<<>>), Some(BLANKS), Some(ADDR_FULL), Some(ADDR_WIDE), Some(ADDR_VILLAGE),
             Some(ADDR_SHORT), Some(ADDR_MARK), Some(ADDR_NO_CITY), Some(ADDR_NO_DISTRICT),
             Some(ADDR_LATIN), Some(ADDR_COMPAT)}
TypePool == {None, Some(<<>>), Some(BLANKS), Some(TYPE_INITIAL), Some(TYPE_SPACED)}
FewDates == {None, Some(<<>>), Some(BLANKS), Some(NOT_A_DATE), Some(DATE_WIDE), Some(DATE_SPACED),
             Some(DATE_TWO), Some(DateText(1, 114, 12, 30)), Some(DateText(4, 114, 2, 30)),
             Some(DATE_DEVANAGARI)}
DatePool == FewDates \cup
            {Some(DateText(k, y, m, d)) : k \in 1..4, y \in SampleYears,
                                          m \in SampleMonths, d \in SampleDays}
CityDistrictPool == {<<None, None>>,
                     <<Some(<<33274, 21271, 24066>>), Some(<<22823, 23433, 21312>>)>>,
                     <<Some(<<>>), Some(ADDR_SHORT)>>}

Field(key, opt) == IF opt = None THEN <<>> ELSE key :> opt[1]

RawRecord(a, d, t, c, di) ==
    Field("full_address", a) @@ Field("register_date", d) @@ Field("register_type", t)
        @@ Field("city", c) @@ Field("district", di)

RawPool ==
    {RawRecord(a, d, t, cd[1], cd[2]) :
        a \in AddrPool, d \in FewDates, t \in TypePool, cd \in CityDistrictPool}
    \cup
    {RawRecord(a, d, Some(TYPE_INITIAL), None, None) :
        a \in {Some(ADDR_FULL), Some(ADDR_WIDE), Some(ADDR_LATIN)}, d \in DatePool \cup LongDates}

\* The raw records of the batches.
BatchPool ==
    {RawRecord(Some(ADDR_FULL), Some(DateText(1, 114, 12, 30)), Some(TYPE_INITIAL), None, None),
     RawRecord(Some(ADDR_WIDE), Some(DATE_WIDE), Some(TYPE_SPACED), None, None),
     RawRecord(Some(BLANKS), Some(DateText(4, 114, 1, 1)), Some(TYPE_INITIAL), None, None),
     RawRecord(Some(ADDR_FULL), Some(DateText(4, 114, 1, 1)), None, None, None),
     RawRecord(Some(ADDR_NO_CITY), Some(NOT_A_DATE), Some(TYPE_INITIAL), None, None),
     RawRecord(Some(ADDR_SHORT), Some(NOT_A_DATE), Some(TYPE_INITIAL), None, None)}

DateYears == (MIN_ROC_YEAR - YearSlack + ROC_OFFSET)..(MAX_ROC_YEAR + YearSlack + ROC_OFFSET)
ValidDates == {dt \in [year : DateYears, month : 1..12, day : 1..31] :
                  date(dt.year, dt.month, dt.day).ok}

----------------------------------------------------------------------------
(* Specifications *)

TextIdle  == text = <<>> /\ once = None /\ twice = None /\ tpc = "idle"
DateIdle  == wdate = None /\ rocstr = None /\ parsed = None /\ dpc = "idle"
RecIdle   == raw = <<>> /\ ret = None /\ again = None /\ rpc = "idle"
BatchIdle == records = <<>> /\ idx = 0 /\ processed = <<>> /\ quarantined = <<>> /\ bpc = "idle"
CallIdle  == arg = <<>> /\ rv = None /\ today = None /\ cpc = "idle"
MainIdle  == /\ scraped = <<>> /\ available = FALSE /\ db_up = FALSE /\ db_fault = "none"
             /\ house_number_records = <<>>
             /\ processed_records = <<>> /\ quarantined_records = <<>>
             /\ db_raw = <<>> /\ db_processed = <<>> /\ db_saved_count = 0 /\ mpc = "idle"

(* SpecText: clean_text on a string, then on its own output *)

InitText ==
    /\ text \in Strings(TEXT_ALPHABET, MaxLen)
    /\ once = None /\ twice = None /\ tpc = "start"
    /\ DateIdle /\ RecIdle /\ BatchIdle /\ CallIdle /\ MainIdle

CleanOnce ==
    /\ tpc = "start"
    /\ once' = Some(clean_text(text))
    /\ tpc' = "cleaned"
    /\ UNCHANGED <<mainVars, callVars, text, twice, dateVars, recVars, batchVars>>

CleanTwice ==
    /\ tpc = "cleaned"
    /\ twice' = Some(clean_text(once[1]))
    /\ tpc' = "recleaned"
    /\ UNCHANGED <<mainVars, callVars, text, once, dateVars, recVars, batchVars>>

NextText == CleanOnce \/ CleanTwice
SpecText == InitText /\ [][NextText]_vars

(* SpecDate: to_roc_date_string on a date (or None), then parse_roc_date *)

InitDate ==
    /\ wdate \in {None} \cup {Some(dt) : dt \in ValidDates}
    /\ rocstr = None /\ parsed = None /\ dpc = "start"
    /\ TextIdle /\ RecIdle /\ BatchIdle /\ CallIdle /\ MainIdle

FormatDate ==
    /\ dpc = "start"
    /\ rocstr' = Some(to_roc_date_string(wdate))
    /\ dpc' = "formatted"
    /\ UNCHANGED <<mainVars, callVars, wdate, parsed, textVars, recVars, batchVars>>

ParseDate ==
    /\ dpc = "formatted"
    /\ parsed' = parse_roc_date(rocstr[1])
    /\ dpc' = "parsed"
    /\ UNCHANGED <<mainVars, callVars, wdate, rocstr, textVars, recVars, batchVars>>

NextDate == FormatDate \/ ParseDate
SpecDate == InitDate /\ [][NextDate]_vars

(* SpecRecord: process_record on one raw record, then again on the raw_data *)
(* of the record it returned                                                *)

InitRecord ==
    /\ raw \in RawPool
    /\ ret = None /\ again = None /\ rpc = "start"
    /\ TextIdle /\ DateIdle /\ BatchIdle /\ CallIdle /\ MainIdle

ProcessRecord ==
    /\ rpc = "start"
    /\ ret' = process_record(raw)
    /\ rpc' = "returned"
    /\ UNCHANGED <<mainVars, callVars, raw, again, textVars, dateVars, batchVars>>

\* The record process_record returned: the side of the pair that is populated.
Returned(pair) == IF pair[1] # None THEN pair[1][1] ELSE pair[2][1]

Reprocess ==
    /\ rpc = "returned"
    /\ again' = process_record(Returned(ret).raw_data)
    /\ rpc' = "rerun"
    /\ UNCHANGED <<mainVars, callVars, raw, ret, textVars, dateVars, batchVars>>

NextRecord == ProcessRecord \/ Reprocess
SpecRecord == InitRecord /\ [][NextRecord]_vars

(* Spec: the loop of process_records over a batch *)

\* The batches: every batch of up to MaxBatch records of BatchPool, and every
\* batch of one record of RawPool.
Batches == UNION {[1..n -> BatchPool] : n \in 0..MaxBatch} \cup {<<r>> : r \in RawPool}

Init ==
    /\ records \in Batches
    /\ idx = 0 /\ processed = <<>> /\ quarantined = <<>> /\ bpc = "loop"
    /\ raw = <<>> /\ ret = None /\ again = None /\ rpc = "idle"
    /\ TextIdle /\ DateIdle /\ CallIdle /\ MainIdle

\* for raw in records: one iteration; raw and ret are the loop's locals raw
\* and (success, failure).
ProcessNext ==
    /\ bpc = "loop" /\ idx < Len(records)
    /\ raw' = records[idx + 1]
    /\ ret' = process_record(raw')
    /\ LET lists == AppendResult(<<processed, quarantined>>, ret')
       IN processed' = lists[1] /\ quarantined' = lists[2]
    /\ idx' = idx + 1
    /\ UNCHANGED <<mainVars, callVars, records, bpc, again, rpc, textVars, dateVars>>

\* return processed, quarantined
Return ==
    /\ bpc = "loop" /\ idx = Len(records)
    /\ bpc' = "done"
    /\ UNCHANGED <<mainVars, callVars, records, idx, processed, quarantined, textVars, dateVars, recVars>>

Next == ProcessNext \/ Return
Spec == Init /\ [][Next]_vars

----------------------------------------------------------------------------
(* Properties *)

Called == rpc \in {"returned", "rerun"}

\* C1: process_record returns a pair with exactly one side populated: a
\* ProcessedRecord and None, or None and a QuarantineRecord.
C1_ExactlyOneSide ==
    Called => /\ Len(ret) = 2
              /\ (ret[1] = None) # (ret[2] = None)
              /\ Len(ret[1]) <= 1 /\ Len(ret[2]) <= 1

C1_Witness == rpc = "returned" /\ ret[1] # None /\ ret[2] = None

\* The gates of the pipeline, each stated on the raw record.
NormalizedAddress(r) == clean_text(raw_get(r, "full_address"))
NormalizedType(r) == clean_text(raw_get(r, "register_type"))
NormalizedDate(r) == clean_text(raw_get(r, "register_date"))
AddressMissing(r) == NormalizedAddress(r) = <<>>
TypeMissing(r) == NormalizedType(r) = <<>>
AddressUnparseable(r) == parse_address(NormalizedAddress(r)) = None
CityOrDistrictMissing(r) ==
    /\ ~AddressUnparseable(r)
    /\ LET parts == parse_address(NormalizedAddress(r))[1]
       IN \/ (parts.city = <<>> /\ raw_get(r, "city") = <<>>)
          \/ (parts.district = <<>> /\ raw_get(r, "district") = <<>>)
DateUnparseable(r) == parse_roc_date(NormalizedDate(r)) = None

\* The first gate that fails, in the priority order; 0 when none fails.
FirstFailingGate(r) ==
    IF AddressMissing(r) THEN 1
    ELSE IF TypeMissing(r) THEN 2
    ELSE IF AddressUnparseable(r) THEN 3
    ELSE IF CityOrDistrictMissing(r) THEN 4
    ELSE IF DateUnparseable(r) THEN 5
    ELSE 0

OnlyWhitespace(s) == s # <<>> /\ \A i \in 1..Len(s) : s[i] \in WHITESPACE

\* C2: the quarantine carries the error type (and, for the two required
\* fields, the message) of the first failing gate in the order address
\* missing, type missing, address unparseable, city/district missing, date
\* unparseable; the record is processed exactly when no gate fails; an
\* all-whitespace address is MISSING_FIELD whatever the other fields; with
\* the required fields present, an unparseable address wins over an
\* unparseable date.  A date whose only match has a year of more than 4300
\* digits fails the date gate.
C2_FirstFailingGate ==
    Called =>
        LET gate == FirstFailingGate(raw)
            q == ret[2][1]
        IN /\ (gate = 0) <=> (ret[1] # None)
           /\ gate = 1 => q.error_type = MISSING_FIELD
                          /\ q.validation_error = MSG_MISSING_FULL_ADDRESS
           /\ gate = 2 => q.error_type = MISSING_FIELD
                          /\ q.validation_error = MSG_MISSING_REGISTER_TYPE
           /\ gate = 3 => q.error_type = INVALID_ADDRESS
           /\ gate = 4 => q.error_type = MISSING_FIELD
           /\ gate = 5 => q.error_type = DATE_FORMAT
           /\ OnlyWhitespace(raw_get(raw, "full_address"))
                  => ret[1] = None /\ q.error_type = MISSING_FIELD
                     /\ q.validation_error = MSG_MISSING_FULL_ADDRESS
           /\ (~AddressMissing(raw) /\ ~TypeMissing(raw)
                   /\ AddressUnparseable(raw) /\ DateUnparseable(raw))
                  => ret[1] = None /\ q.error_type = INVALID_ADDRESS
           /\ raw_get(raw, "register_date") = DATE_LONG_YEAR => gate # 0
           /\ (raw_get(raw, "register_date") = DATE_LONG_YEAR /\ gate = 5)
                  => q.validation_error = MSG_CANNOT_PARSE_DATE \o DATE_LONG_YEAR

C2_Witness ==
    /\ rpc = "returned"
    /\ AddressUnparseable(raw) /\ DateUnparseable(raw)
    /\ ~AddressMissing(raw) /\ ~TypeMissing(raw)
    /\ ret[2] # None /\ ret[2][1].error_type = INVALID_ADDRESS

\* The date of r has a match whose digits int() refuses to read: the
\* ValueError raised at data_processing.py:185 inside parse_roc_date.
DateRaisesInside(r) ==
    LET s == NormalizedDate(r)
    IN \E k \in 1..Len(ROC_DATE_PATTERNS) :
         LET m == Search(ROC_DATE_PATTERNS[k], s)
         IN m # None /\ (~int(m[1].g1).ok \/ ~int(m[1].g2).ok \/ ~int(m[1].g3).ok)

\* C3: no step of process_record raises: every call returns, and every
\* failure path returns a QuarantineRecord that holds the raw input itself
\* and a non-empty validation_error, and running process_record on that
\* raw_data gives the same quarantine again.  A date whose digits make int()
\* raise is no exception: the error is caught inside parse_roc_date, and the
\* record is processed from a later pattern or quarantined as DATE_FORMAT.
C3_QuarantineKeepsRaw ==
    /\ (Called /\ ret[1] = None) =>
          /\ ret[2] # None
          /\ ret[2][1].raw_data = raw
          /\ ret[2][1].validation_error # <<>>
          /\ ret[2][1].error_type \in ErrorType
          /\ rpc = "rerun" => again = ret
    /\ (Called /\ DateRaisesInside(raw)) =>
          /\ (ret[1] = None) # (ret[2] = None)
          /\ ret[2] # None => /\ ret[2][1].error_type \in {"DATE_FORMAT", "INVALID_ADDRESS"}
                              /\ ret[2][1].raw_data = raw
          /\ (ret[2] # None /\ ret[2][1].error_type = "DATE_FORMAT") =>
                ret[2][1].validation_error
                    = <<67, 97, 110, 110, 111, 116, 32, 112, 97, 114, 115, 101, 32, 100, 97, 116, 101, 58, 32>>
                          \o NormalizedDate(raw)

\* int() raises on the year of the only match of the date, the record comes
\* back as a DATE_FORMAT quarantine with an address that cleaning changes,
\* and the second run on its raw_data has returned.
C3_Witness ==
    /\ rpc = "rerun" /\ ret[2] # None /\ again[2] # None
    /\ DateRaisesInside(raw) /\ ret[2][1].error_type = "DATE_FORMAT"
    /\ \E k \in DOMAIN raw : clean_text(raw[k]) # raw[k]

\* C4: every QuarantineRecord that process_record returns and every one that
\* process_records puts on its list has error_type MISSING_FIELD,
\* INVALID_ADDRESS or DATE_FORMAT, never SCHEMA_MISMATCH.
C4_ErrorTypesEmitted ==
    /\ (idx > 0 /\ ret[2] # None)
           => ret[2][1].error_type \in {"MISSING_FIELD", "INVALID_ADDRESS", "DATE_FORMAT"}
    /\ \A k \in 1..Len(quarantined) :
           quarantined[k].error_type \in {"MISSING_FIELD", "INVALID_ADDRESS", "DATE_FORMAT"}

C4_Witness ==
    /\ bpc = "done" /\ Len(quarantined) = 3
    /\ ret[2] # None
    /\ {quarantined[k].error_type : k \in 1..3}
           = {"MISSING_FIELD", "INVALID_ADDRESS", "DATE_FORMAT"}

\* The ROC year written at the front of a "Y-MM-DD" string.
RocYearPart(s) == int_within(SubSeq(s, 1, IndexFrom(s, 45, 1) - 1), 9999)

\* C5: a ProcessedRecord holds the normalized address and type, the date
\* parsed from the raw date (Western year 2011..2031), that date's ROC string
\* (year part 100..120, parsing back to the same date), the AddressParts
\* parsed from the normalized address, and the raw input itself.  The date is
\* that of the first match int() can read: a match with a group of more than
\* 4300 digits is passed over, one of exactly 4300 digits is read.
C5_ProcessedFields ==
    (Called /\ ret[1] # None) =>
        LET p == ret[1][1] IN
        /\ p.full_address = clean_text(raw_get(raw, "full_address"))
        /\ p.assignment_type = clean_text(raw_get(raw, "register_type"))
        /\ Some(p.assignment_date) = parse_roc_date(raw_get(raw, "register_date"))
        /\ p.assignment_date.year \in 2011..2031
        /\ p.assignment_date_roc = to_roc_date_string(Some(p.assignment_date))
        /\ RocYearPart(p.assignment_date_roc) \in 100..120
        /\ parse_roc_date(p.assignment_date_roc) = Some(p.assignment_date)
        /\ Some(p.address_parts) = parse_address(p.full_address)
        /\ p.raw_data = raw
        /\ raw_get(raw, "register_date") # DATE_LONG_YEAR
        /\ raw_get(raw, "register_date") = DATE_LONG_THEN_SHORT
              => p.assignment_date = [year |-> 2025, month |-> 1, day |-> 1]
        /\ raw_get(raw, "register_date") = DATE_LONGEST_READ
              => p.assignment_date = [year |-> 2025, month |-> 12, day |-> 30]

C5_Witness ==
    /\ rpc = "returned" /\ ret[1] # None
    /\ ret[1][1].full_address # raw["full_address"]
    /\ ret[1][1].assignment_type # raw["register_type"]
    /\ ret[1][1].assignment_date_roc # clean_text(raw["register_date"])

\* The elements of seq at the indices in S, in order.
RECURSIVE PickFrom(_, _, _)
PickFrom(seq, S, i) ==
    IF i > Len(seq) THEN <<>>
    ELSE (IF i \in S THEN <<seq[i]>> ELSE <<>>) \o PickFrom(seq, S, i + 1)

RawsOf(list) == [k \in 1..Len(list) |-> list[k].raw_data]

\* C6: process_records is a stable partition: the records read so far split
\* into two index sets, processed holds the records of one and quarantined
\* those of the other, each in input order, one element per record; the loop
\* ends only after the last record.
C6_StablePartition ==
    /\ Len(processed) + Len(quarantined) = idx
    /\ \E S \in SUBSET (1..idx) :
           /\ RawsOf(processed) = PickFrom(records, S, 1)
           /\ RawsOf(quarantined) = PickFrom(records, (1..idx) \ S, 1)
    /\ bpc = "done" => idx = Len(records)

C6_Witness ==
    /\ bpc = "done" /\ Len(records) = 3
    /\ Len(processed) = 2 /\ Len(quarantined) = 1
    /\ processed[1] # processed[2]
    /\ quarantined[1].raw_data = records[1]

\* C9: clean_text is idempotent: cleaning its own output changes nothing.
C9_CleanTextIdempotent == tpc = "recleaned" => twice = once

\* C10: a valid date whose ROC year is in [100, 120] is parsed back from its
\* ROC string.
C10_RoundTrip ==
    (dpc = "parsed" /\ wdate # None
        /\ wdate[1].year - 1911 >= 100 /\ wdate[1].year - 1911 <= 120)
    => parsed = wdate

C10_Witness ==
    /\ dpc = "parsed"
    /\ wdate = Some([year |-> 2025, month |-> 11, day |-> 7])
    /\ rocstr = Some(<<49, 49, 52, 45, 49, 49, 45, 48, 55>>)
    /\ parsed = wdate


----------------------------------------------------------------------------
(* parse_roc_date called once on a date string *)

\* Ways of writing one date text: as DateText writes it, with month and day
\* zero-padded, with every ASCII character in its full-width form, and with
\* whitespace (space, ideographic space) before every character.
DateTextPadded(k, y, m, d) ==
    LET p == ROC_DATE_PATTERNS[k]
    IN p.prefix \o str(y) \o p.sep1 \o Pad2(m) \o p.sep2 \o Pad2(d) \o p.suffix

Widen(s) == [i \in 1..Len(s) |-> IF s[i] \in 33..126 THEN s[i] + 65248 ELSE s[i]]

Spaced(s) == Flatten([i \in 1..Len(s) |-> <<IF i % 2 = 0 THEN 32 ELSE 12288, s[i]>>])

Styles == {"plain", "padded", "wide", "spaced"}
Styled(style, k, y, m, d) ==
    CASE style = "plain"  -> DateText(k, y, m, d)
      [] style = "padded" -> DateTextPadded(k, y, m, d)
      [] style = "wide"   -> Widen(DateText(k, y, m, d))
      [] style = "spaced" -> Spaced(DateText(k, y, m, d))

\* One date in one of the four formats: ROC years around and far from the
\* window, every month, the days at which months end.
ParseYears == ((MIN_ROC_YEAR - YearSlack)..(MAX_ROC_YEAR + YearSlack)) \cup {1, 2025}
ParseDays == {1, 28, 29, 30, 31}
SingleCases ==
    {[text |-> Styled(st, k, y, m, d), k |-> k, y |-> y, m |-> m, d |-> d, style |-> st] :
        st \in Styles, k \in 1..4, y \in ParseYears, m \in 1..12, d \in ParseDays}

\* Two date texts separated by a comma, and strings that hold no date.
PairParts ==
    {DateText(k, f[1], f[2], f[3]) :
        k \in 1..4, f \in {<<99, 1, 1>>, <<114, 1, 1>>, <<114, 2, 30>>, <<114, 13, 1>>, <<120, 12, 31>>}}
\* "99/1/1,114/1/1,114-2-3"
DATE_THREE == <<57, 57, 47, 49, 47, 49, 44, 49, 49, 52, 47, 49, 47, 49, 44,
                49, 49, 52, 45, 50, 45, 51>>
OtherCases ==
    {[text |-> t, k |-> 0, y |-> 0, m |-> 0, d |-> 0, style |-> "other"] :
        t \in {a \o <<44>> \o b : a \in PairParts, b \in PairParts}
               \cup {<<>>, BLANKS, NOT_A_DATE, DATE_WIDE, DATE_SPACED, DATE_TWO, DATE_THREE,
                     DATE_DEVANAGARI, DATE_CIRCLED, DATE_LONG_THEN_SHORT}}

\* One date in one of the four formats with zeros in front of its year, its
\* month or its day, so that the group has MAX_STR_DIGITS digits or one
\* more; y, m and d are the numbers written.
PaddedText(k, y, m, d, pad) ==
    LET p == ROC_DATE_PATTERNS[k]
    IN p.prefix \o Zeros(pad[1]) \o str(y) \o p.sep1 \o Zeros(pad[2]) \o str(m)
           \o p.sep2 \o Zeros(pad[3]) \o str(d) \o p.suffix
LongPads(y, m, d) ==
    {<<MAX_STR_DIGITS - Len(str(y)), 0, 0>>, <<MAX_STR_DIGITS - Len(str(y)) + 1, 0, 0>>,
     <<0, MAX_STR_DIGITS - Len(str(m)) + 1, 0>>, <<0, 0, MAX_STR_DIGITS - Len(str(d)) + 1>>}
LongCases ==
    UNION {{[text |-> PaddedText(k, y, m, 30, pad),
             k |-> 0, y |-> y, m |-> m, d |-> 30, style |-> "long"] : pad \in LongPads(y, m, 30)} :
              k \in 1..4,
              y \in {MIN_ROC_YEAR - 1, MIN_ROC_YEAR, 114, MAX_ROC_YEAR, MAX_ROC_YEAR + 1},
              m \in {2, 12}}

\* A year of more digits than int() reads, "1...1/1/1" and "1...1年1月1日",
\* and years of eleven digits; y stands for the number written, which is
\* above INT_CAP.
HugeYearCases ==
    {[text |-> t, k |-> 0, y |-> INT_CAP + 1, m |-> 1, d |-> 1, style |-> "long"] :
        t \in {[i \in 1..(MAX_STR_DIGITS + 1) |-> 49] \o <<47, 49, 47, 49>>,
               [i \in 1..(MAX_STR_DIGITS + 1) |-> 49] \o <<24180, 49, 26376, 49, 26085>>,
               [i \in 1..11 |-> 57] \o <<47, 49, 47, 49>>,
               [i \in 1..11 |-> 49] \o <<45, 49, 45, 49>>}}

InitParse ==
    /\ arg \in SingleCases \cup OtherCases \cup LongCases \cup HugeYearCases
    /\ rv = None /\ today = None /\ cpc = "start"
    /\ TextIdle /\ DateIdle /\ RecIdle /\ BatchIdle /\ MainIdle

CallParseRocDate ==
    /\ cpc = "start"
    /\ rv' = parse_roc_date(arg.text)
    /\ cpc' = "returned"
    /\ UNCHANGED <<mainVars, arg, today, textVars, dateVars, recVars, batchVars>>

NextParse == CallParseRocDate
SpecParse == InitParse /\ [][NextParse]_vars

\* The call returned from a text that holds one date in one of the four
\* formats, in whatever writing.
OneDateParsed == cpc = "returned" /\ (arg.k \in 1..4 \/ arg.style = "long")

\* C11: a date text in one of the four formats whose ROC year lies outside
\* 100..120 parses to None whatever its month and day; with year 100 or 120
\* and a real calendar date it parses to that date.  The year is the value
\* of its digits, however many zeros are written before them.
C11_YearWindow ==
    OneDateParsed =>
        /\ (arg.y < 100 \/ arg.y > 120) => rv = None
        /\ (arg.y \in {100, 120} /\ date(arg.y + 1911, arg.m, arg.d).ok) =>
               rv = Some([year |-> arg.y + 1911, month |-> arg.m, day |-> arg.d])

\* What the patterns give on the normalized string s, stated pattern by
\* pattern: LeftmostMatch is the match of pattern k at the smallest index that
\* has one, Passes says that it passes the range checks and is a real date.
MatchStarts(k, s) ==
    {i \in SearchStarts(ROC_DATE_PATTERNS[k], s) : MatchAt(ROC_DATE_PATTERNS[k], s, i) # None}
LeftmostMatch(k, s) == MatchAt(ROC_DATE_PATTERNS[k], s, Min(MatchStarts(k, s)))[1]
Number(digits) == int_within(digits, 9999)
MatchDate(g) == date(Number(g.g1) + 1911, Number(g.g2), Number(g.g3))
InRange(g) ==
    /\ Number(g.g1) >= 100 /\ Number(g.g1) <= 120
    /\ Number(g.g2) >= 1 /\ Number(g.g2) <= 12
    /\ Number(g.g3) >= 1 /\ Number(g.g3) <= 31
    /\ MatchDate(g).ok
Passes(k, s) == MatchStarts(k, s) # {} /\ InRange(LeftmostMatch(k, s))
PassingPatterns(s) == {k \in 1..4 : Passes(k, s)}

\* The result is the date of the leftmost match of the first pattern of K;
\* None when K is empty.
DateOfFirst(K, s) ==
    IF K = {} THEN rv = None ELSE rv = Some(MatchDate(LeftmostMatch(Min(K), s)).value)

\* C12: the result is the date of the first pattern,
\* in list order, whose leftmost match in the normalized string passes the
\* range checks and is a real calendar date; None when no pattern has such a
\* match.  A pattern whose leftmost match fails is given up for the next
\* pattern, never for a later match of the same pattern.
C12_FirstPassingPattern ==
    cpc = "returned" => DateOfFirst(PassingPatterns(clean_text(arg.text)), clean_text(arg.text))

\* C13: for a ROC year in 100..120 and a real month and day, the four formats
\* parse to the date (year + 1911, month, day), also when written with
\* zero-padded fields, in full-width characters or with embedded whitespace.
C13_FormatsAgree ==
    (/\ cpc = "returned" /\ arg.k \in 1..4
     /\ arg.y >= 100 /\ arg.y <= 120 /\ arg.d <= DaysInMonth(arg.y + 1911, arg.m)) =>
        rv = Some([year |-> arg.y + 1911, month |-> arg.m, day |-> arg.d])

C13_Witness ==
    /\ cpc = "returned" /\ arg.k = 1 /\ arg.style = "spaced"
    /\ arg.y = 114 /\ arg.m = 12 /\ arg.d = 30
    /\ rv = Some([year |-> 2025, month |-> 12, day |-> 30])

\* C14: to_roc_date_string writes year - 1911 without padding, then "-", the
\* month in two digits, "-", the day in two digits; an absent date gives the
\* empty string.
C14_RocDateString ==
    dpc # "start" =>
        IF wdate = None THEN rocstr = Some(<<>>)
        ELSE LET n == wdate[1].year - 1911
                 m == wdate[1].month
                 d == wdate[1].day
                 yy == IF n >= 100 THEN <<48 + (n \div 100), 48 + ((n \div 10) % 10), 48 + (n % 10)>>
                       ELSE <<48 + (n \div 10), 48 + (n % 10)>>
             IN rocstr = Some(yy \o <<45, 48 + (m \div 10), 48 + (m % 10),
                                      45, 48 + (d \div 10), 48 + (d % 10)>>)

\* 2025-11-07 gives "114-11-07".
C14_Witness ==
    /\ dpc = "formatted"
    /\ wdate = Some([year |-> 2025, month |-> 11, day |-> 7])
    /\ rocstr = Some(<<49, 49, 52, 45, 49, 49, 45, 48, 55>>)

----------------------------------------------------------------------------
(* validate_roc_date called once, on some day *)

\* The days on which the call is made, and date texts on both sides of them.
Todays == {[year |-> 2011, month |-> 1, day |-> 1], [year |-> 2025, month |-> 12, day |-> 30],
           [year |-> 2026, month |-> 10, day |-> 30], [year |-> 2031, month |-> 12, day |-> 31]}
ValidateCases ==
    {c \in SingleCases : /\ c.style \in {"plain", "wide"}
                         /\ c.y \in {MIN_ROC_YEAR - 1, MIN_ROC_YEAR, 114, 115, MAX_ROC_YEAR, MAX_ROC_YEAR + 1}
                         /\ c.m \in {1, 2, 10, 12} /\ c.d \in {1, 29, 30, 31}}
    \cup {c \in OtherCases : c.text \in {<<>>, BLANKS, NOT_A_DATE, DATE_WIDE, DATE_SPACED, DATE_TWO,
                                          DATE_LONG_THEN_SHORT}}
    \cup {c \in LongCases : c.y \in {MIN_ROC_YEAR, 114} /\ c.m = 12}

InitValidate ==
    /\ arg \in ValidateCases
    /\ today \in {Some(t) : t \in Todays}
    /\ rv = None /\ cpc = "start"
    /\ TextIdle /\ DateIdle /\ RecIdle /\ BatchIdle /\ MainIdle

CallValidateRocDate ==
    /\ cpc = "start"
    /\ rv' = validate_roc_date(arg.text, today[1])
    /\ cpc' = "returned"
    /\ UNCHANGED <<mainVars, arg, today, textVars, dateVars, recVars, batchVars>>

NextValidate == CallValidateRocDate
SpecValidate == InitValidate /\ [][NextValidate]_vars

DayNumber(d) == d.year * 10000 + d.month * 100 + d.day
Digits4(n) == <<48 + (n \div 1000), 48 + ((n \div 100) % 10), 48 + ((n \div 10) % 10), 48 + (n % 10)>>
Digits2(n) == <<48 + (n \div 10), 48 + (n % 10)>>

\* The text has a run of more than 4300 digits.
HasLongRun(s) == \E i \in 1..(Len(s) - 4300) : \A j \in i..(i + 4300) : IsDigit(s[j])

\* C15: validate_roc_date returns (True, "") exactly when parse_roc_date
\* gives a date that is not later than today; a later date is rejected with
\* "Date is in the future: YYYY-MM-DD", a date equal to today is accepted, an
\* empty or unparseable string is rejected with a non-empty message.  A
\* single date with a group of more than 4300 digits is unparseable:
\* "Cannot parse date: " and the string; with a year of exactly 4300 digits
\* it is a date like any other.
C15_ValidateRocDate ==
    cpc = "returned" =>
        LET p == parse_roc_date(arg.text) IN
        /\ (rv = <<TRUE, <<>>>>) <=> (p # None /\ DayNumber(p[1]) <= DayNumber(today[1]))
        /\ (p # None /\ DayNumber(p[1]) > DayNumber(today[1])) =>
              rv = <<FALSE, <<68, 97, 116, 101, 32, 105, 115, 32, 105, 110, 32, 116, 104, 101,
                              32, 102, 117, 116, 117, 114, 101, 58, 32>>
                            \o Digits4(p[1].year) \o <<45>> \o Digits2(p[1].month)
                            \o <<45>> \o Digits2(p[1].day)>>
        /\ p = None => (rv[1] = FALSE /\ rv[2] # <<>>)
        /\ (arg.style = "long" /\ HasLongRun(arg.text)) =>
              rv = <<FALSE, <<67, 97, 110, 110, 111, 116, 32, 112, 97, 114, 115, 101, 32,
                              100, 97, 116, 101, 58, 32>> \o arg.text>>
        /\ (arg.style = "long" /\ ~HasLongRun(arg.text)) =>
              (rv = <<TRUE, <<>>>>) <=> (arg.y * 10000 + arg.m * 100 + arg.d
                                            <= DayNumber(today[1]) - 19110000)

\* The date parsed is today itself and is accepted.
C15_Witness ==
    /\ cpc = "returned" /\ rv = <<TRUE, <<>>>>
    /\ today = Some([year |-> 2025, month |-> 12, day |-> 30])
    /\ arg.y = 114 /\ arg.m = 12 /\ arg.d = 30

----------------------------------------------------------------------------
(* parse_address called once on an address *)

\* Tokens of the address grammar: the text written in the address and the
\* value the token stands for in its AddressParts field.
\* 臺北市 嘉義縣 臺南市
CityTokens ==
    {[text |-> <<33274, 21271, 24066>>, field |-> Some(<<33274, 21271, 24066>>)],
     [text |-> <<22025, 32681, 32291>>, field |-> Some(<<22025, 32681, 32291>>)],
     [text |-> <<33274, 21335, 24066>>, field |-> Some(<<33274, 21335, 24066>>)]}
\* 大安區 新市區 大里區
DistrictTokens ==
    {[text |-> <<22823, 23433, 21312>>, field |-> Some(<<22823, 23433, 21312>>)],
     [text |-> <<26032, 24066, 21312>>, field |-> Some(<<26032, 24066, 21312>>)],
     [text |-> <<22823, 37324, 21312>>, field |-> Some(<<22823, 37324, 21312>>)]}
\* (none) 富台里
VillageTokens ==
    {[text |-> <<>>, field |-> None],
     [text |-> <<23500, 21488, 37324>>, field |-> Some(<<23500, 21488, 37324>>)]}
\* (none) 019鄰
NeighborhoodTokens ==
    {[text |-> <<>>, field |-> None],
     [text |-> <<48, 49, 57, 37168>>, field |-> Some(<<49, 57>>)]}
\* 信義路 大里路 中山街
RoadTokens ==
    {[text |-> <<20449, 32681, 36335>>, field |-> Some(<<20449, 32681, 36335>>)],
     [text |-> <<22823, 37324, 36335>>, field |-> Some(<<22823, 37324, 36335>>)],
     [text |-> <<20013, 23665, 34903>>, field |-> Some(<<20013, 23665, 34903>>)]}
\* (none) 四段
SectionTokens ==
    {[text |-> <<>>, field |-> None],
     [text |-> <<22235, 27573>>, field |-> Some(<<22235, 27573>>)]}
\* (none) 100巷
LaneTokens ==
    {[text |-> <<>>, field |-> None],
     [text |-> <<49, 48, 48, 24055>>, field |-> Some(<<49, 48, 48>>)]}
\* (none) 5弄
AlleyTokens ==
    {[text |-> <<>>, field |-> None],
     [text |-> <<53, 24324>>, field |-> Some(<<53>>)]}
\* (none) 10號
NumberTokens ==
    {[text |-> <<>>, field |-> None],
     [text |-> <<49, 48, 34399>>, field |-> Some(<<49, 48>>)]}
\* 3樓 十二樓: runs that are a number of digits or a numeral of a supported shape
FloorTokens ==
    {[text |-> <<51, 27155>>, field |-> Some(<<51>>)],
     [text |-> <<21313, 20108, 27155>>, field |-> Some(<<49, 50>>)]}
\* (none) 之1 之二
FloorDashTokens ==
    {[text |-> <<>>, field |-> None],
     [text |-> <<20043, 49>>, field |-> Some(<<49>>)],
     [text |-> <<20043, 20108>>, field |-> Some(<<50>>)]}
\* 二三樓 3二樓 1十樓: other runs of digits and numeral characters
OddFloorTokens ==
    {[text |-> <<20108, 19977, 27155>>, field |-> Some(<<20108, 19977>>)],
     [text |-> <<51, 20108, 27155>>, field |-> Some(<<51, 20108>>)],
     [text |-> <<49, 21313, 27155>>, field |-> Some(<<49, 21313>>)]}
\* (none) 之二三 之3二
OddFloorDashTokens ==
    {[text |-> <<>>, field |-> None],
     [text |-> <<20043, 20108, 19977>>, field |-> Some(<<20108, 19977>>)],
     [text |-> <<20043, 51, 20108>>, field |-> Some(<<51, 20108>>)]}

NoToken == [text |-> <<>>, field |-> None]

\* The address made of the tokens t (a sequence of eleven tokens in grammar
\* order) and the fields the tokens stand for.
AddressOf(t, shape) ==
    [text |-> Flatten([i \in 1..Len(t) |-> t[i].text]), shape |-> shape,
     city |-> t[1].field, district |-> t[2].field, village |-> t[3].field,
     neighborhood |-> t[4].field, road |-> t[5].field, section |-> t[6].field,
     lane |-> t[7].field, alley |-> t[8].field, number |-> t[9].field,
     floor |-> t[10].field, floor_dash |-> t[11].field]

\* Road with optional section, or neither.
RoadParts == {<<NoToken, NoToken>>} \cup (RoadTokens \X SectionTokens)
\* Floor with optional offset, or neither.
FloorParts == {<<NoToken, NoToken>>} \cup (FloorTokens \X FloorDashTokens)
OddFloorParts == OddFloorTokens \X OddFloorDashTokens

GrammarCases ==
    {AddressOf(<<c, d, v, n, r[1], r[2], l, a, u, f[1], f[2]>>, "grammar") :
        c \in CityTokens, d \in DistrictTokens, v \in VillageTokens, n \in NeighborhoodTokens,
        r \in RoadParts, l \in LaneTokens, a \in AlleyTokens, u \in NumberTokens,
        f \in FloorParts}
OddRunCases ==
    {AddressOf(<<c, d, NoToken, NoToken, r[1], r[2], NoToken, NoToken, u, f[1], f[2]>>, "odd run") :
        c \in CityTokens, d \in DistrictTokens, r \in RoadParts, u \in NumberTokens,
        f \in OddFloorParts}
\* 大 市 縣 區 and the letter a: every short start of an address.
PREFIX_ALPHABET == {22823, 24066, 32291, 21312, 97}
\* Addresses outside the grammar.
LooseCases ==
    {[text |-> t, shape |-> "loose"] :
        t \in Strings(PREFIX_ALPHABET, ShortAddrLen) \cup {a[1] : a \in AddrPool \ {None}} \cup {<<33274, 21271, 24066, 22823, 23433, 21312, 24055, 24324, 34399, 27155, 20043>>, <<33274, 21271, 24066, 22823, 23433, 21312, 49, 24055, 50, 24055, 51, 24324, 52, 24324, 53, 34399, 54, 34399, 55, 27155, 56, 27155, 20043, 57, 27155, 20043, 21313>>, <<33274, 21271, 24066, 22823, 23433, 21312, 65301, 24055, 20043, 65299, 34399, 27155, 20043, 27155, 20043, 65298>>,
            ADDR_DEVANAGARI}}

\* Addresses with a neighborhood: every run of up to MaxLen digits from 0, 1
\* and 9 before 鄰, after a village or not, before a road or not.
NeighborhoodRuns == Strings({48, 49, 57}, MaxLen) \ {<<>>}
NeighborhoodCases ==
    {AddressOf(<<c, d, v, [text |-> n \o NEIGHBORHOOD_GLYPH, field |-> Some(n)],
                 r[1], r[2], NoToken, NoToken, u, NoToken, NoToken>>, "neighborhood") :
        c \in CityTokens, d \in DistrictTokens, v \in VillageTokens, n \in NeighborhoodRuns,
        r \in RoadParts, u \in NumberTokens}

InitAddress ==
    /\ arg \in GrammarCases \cup OddRunCases \cup LooseCases \cup NeighborhoodCases
    /\ rv = None /\ today = None /\ cpc = "start"
    /\ TextIdle /\ DateIdle /\ RecIdle /\ BatchIdle /\ MainIdle

CallParseAddress ==
    /\ cpc = "start"
    /\ rv' = parse_address(arg.text)
    /\ cpc' = "returned"
    /\ UNCHANGED <<mainVars, arg, today, textVars, dateVars, recVars, batchVars>>

NextAddress == CallParseAddress
SpecAddress == InitAddress /\ [][NextAddress]_vars

\* C16: for an address made of grammar tokens in grammar order, parse_address
\* returns every token present in its own field and leaves the field of every
\* token not present absent, whatever CJK names the tokens carry.
C16_GrammarFields ==
    (cpc = "returned" /\ arg.shape = "grammar") =>
        /\ rv # None
        /\ Some(rv[1].city) = arg.city /\ Some(rv[1].district) = arg.district
        /\ \A f \in {"village", "neighborhood", "road", "section",
                      "lane", "alley", "number", "floor", "floor_dash"} :
              rv[1][f] = arg[f]

\* The same with names that hold no suffix glyph of a later token before
\* their own suffix: every field is right.
PlainNames ==
    /\ arg.district # Some(<<26032, 24066, 21312>>)     \* 新市區
    /\ arg.road # Some(<<22823, 37324, 36335>>)         \* 大里路
GrammarFieldsOfPlainNames ==
    (cpc = "returned" /\ arg.shape = "grammar" /\ PlainNames) =>
        /\ rv # None
        /\ Some(rv[1].city) = arg.city /\ Some(rv[1].district) = arg.district
        /\ \A f \in {"village", "neighborhood", "road", "section",
                      "lane", "alley", "number", "floor", "floor_dash"} :
              rv[1][f] = arg[f]


\* C17: lane, alley, number, floor and floor_dash of a returned AddressParts,
\* when present, hold none of the glyphs 巷 弄 號 樓 之.
C17_NoSuffixGlyph ==
    (cpc = "returned" /\ rv # None) =>
        \A f \in {"lane", "alley", "number", "floor", "floor_dash"} :
            rv[1][f] # None =>
                \A i \in 1..Len(rv[1][f][1]) :
                    rv[1][f][1][i] \notin {24055, 24324, 34399, 27155, 20043}

\* All five fields are present.
C17_Witness ==
    /\ cpc = "returned" /\ rv # None
    /\ \A f \in {"lane", "alley", "number", "floor", "floor_dash"} : rv[1][f] # None

\* C18: floor and floor_dash of a returned AddressParts, when present, are
\* made of the digits 0-9 only, whatever run stood before 樓 or after 樓之.
C18_FloorsDecimal ==
    (cpc = "returned" /\ rv # None) =>
        \A f \in {"floor", "floor_dash"} :
            rv[1][f] # None => \A i \in 1..Len(rv[1][f][1]) : rv[1][f][1][i] \in 48..57

----------------------------------------------------------------------------
(* chinese_to_arabic called once on a token *)

\* 零, 一..九, 十, 百, the digits 0 and 7, the letter a, the Devanagari digit
\* one U+0967 and the circled digit two U+2461
ZERO_GLYPH == <<38646>>
ONE_TO_NINE == <<19968, 20108, 19977, 22235, 20116, 20845, 19971, 20843, 20061>>
HUNDRED_GLYPH == <<30334>>
TOKEN_ALPHABET ==
    {38646, 21313, 30334, 48, 55, 97, 2407, 9313} \cup {ONE_TO_NINE[i] : i \in 1..9}

InitNumeral ==
    /\ arg \in {[text |-> t] : t \in Strings(TOKEN_ALPHABET, MaxLen)}
    /\ rv = None /\ today = None /\ cpc = "start"
    /\ TextIdle /\ DateIdle /\ RecIdle /\ BatchIdle /\ MainIdle

CallChineseToArabic ==
    /\ cpc = "start"
    /\ rv' = chinese_to_arabic(arg.text)
    /\ cpc' = "returned"
    /\ UNCHANGED <<mainVars, arg, today, textVars, dateVars, recVars, batchVars>>

NextNumeral == CallChineseToArabic
SpecNumeral == InitNumeral /\ [][NextNumeral]_vars

IsOneToNine(c) == \E i \in 1..9 : ONE_TO_NINE[i] = c
ValueOf(c) == IF c = 38646 THEN 0 ELSE CHOOSE i \in 1..9 : ONE_TO_NINE[i] = c
AllDecimal(t) == \A i \in 1..Len(t) : t[i] \in 48..57

\* C19: 零..九 give "0".."9", 十 gives "10", 十Y gives 10 + Y, X十 gives 10 * X,
\* X十Y gives 10 * X + Y (X, Y in 一..九); a token of decimal digits comes
\* back unchanged; a number computed from a token lies in 0..99.
C19_NumeralsToNinetyNine ==
    cpc = "returned" =>
        LET t == arg.text IN
        /\ (Len(t) = 1 /\ (t = ZERO_GLYPH \/ IsOneToNine(t[1]))) => rv = <<48 + ValueOf(t[1])>>
        /\ t = <<21313>> => rv = <<49, 48>>
        /\ (Len(t) = 2 /\ t[1] = 21313 /\ IsOneToNine(t[2])) => rv = <<49, 48 + ValueOf(t[2])>>
        /\ (Len(t) = 2 /\ IsOneToNine(t[1]) /\ t[2] = 21313) => rv = <<48 + ValueOf(t[1]), 48>>
        /\ (Len(t) = 3 /\ IsOneToNine(t[1]) /\ t[2] = 21313 /\ IsOneToNine(t[3])) =>
              rv = <<48 + ValueOf(t[1]), 48 + ValueOf(t[3])>>
        /\ (t # <<>> /\ AllDecimal(t)) => rv = t
        /\ (~AllDecimal(t) /\ AllDecimal(rv)) => Len(rv) \in 1..2

\* 九十九 gives "99".
C19_Witness ==
    /\ cpc = "returned"
    /\ arg.text = <<20061, 21313, 20061>> /\ rv = <<57, 57>>

\* The parts of a token around its first 十.
TensPart(t) == SubSeq(t, 1, IndexFrom(t, 21313, 1) - 1)
OnesPart(t) == SubSeq(t, IndexFrom(t, 21313, 1) + 1, Len(t))
Unsupported(t) ==
    \/ \E i \in 1..Len(t) : t[i] = HUNDRED_GLYPH[1]
    \/ \E i \in 1..Len(t) : t[i] \notin (48..57) \cup {38646, 21313} /\ ~IsOneToNine(t[i])
    \/ /\ \E i \in 1..Len(t) : t[i] = 21313
       /\ (Len(TensPart(t)) > 1 \/ Len(OnesPart(t)) > 1)

\* C20: a token that holds 百 or an unrecognized character, or whose part
\* before or after 十 is longer than one character, is returned unchanged.
C20_UnsupportedUnchanged ==
    (cpc = "returned" /\ Unsupported(arg.text)) => rv = arg.text

----------------------------------------------------------------------------
(* validate_address called once on an address *)

\* 大 市 區 and the space: short addresses on both sides of five characters.
SHORT_ADDR_ALPHABET == {22823, 24066, 21312, 32}
ValidateAddressCases ==
    {[text |-> t] : t \in Strings(SHORT_ADDR_ALPHABET, ShortAddrLen)
                          \cup {c.text : c \in LooseCases}
                          \cup {c.text : c \in {g \in GrammarCases : g.village = None /\ g.lane = None}}}

InitValidateAddress ==
    /\ arg \in ValidateAddressCases
    /\ rv = None /\ today = None /\ cpc = "start"
    /\ TextIdle /\ DateIdle /\ RecIdle /\ BatchIdle /\ MainIdle

CallValidateAddress ==
    /\ cpc = "start"
    /\ rv' = validate_address(arg.text)
    /\ cpc' = "returned"
    /\ UNCHANGED <<mainVars, arg, today, textVars, dateVars, recVars, batchVars>>

NextValidateAddress == CallValidateAddress
SpecValidateAddress == InitValidateAddress /\ [][NextValidateAddress]_vars

\* C21: validate_address returns (True, "") exactly when the address is not
\* empty, has at least five characters and parse_address gives parts with a
\* non-empty city and district; otherwise (False, message), message not empty.
C21_ValidateAddress ==
    cpc = "returned" =>
        LET a == arg.text
            parts == parse_address(a)
            good == /\ a # <<>> /\ Len(a) >= 5 /\ parts # None
                    /\ parts[1].city # <<>> /\ parts[1].district # <<>>
        IN /\ (rv = <<TRUE, <<>>>>) <=> good
           /\ ~good => (rv[1] = FALSE /\ rv[2] # <<>>)

\* An address of four characters that parse_address accepts is rejected.
C21_Witness ==
    /\ cpc = "returned" /\ Len(arg.text) = 4
    /\ parse_address(arg.text) # None /\ rv[1] = FALSE

----------------------------------------------------------------------------
(* process_record: city and district, raw_address, missing dates *)

ParsedParts(r) == parse_address(clean_text(raw_get(r, "full_address")))
MissingCityOrDistrict(pair) ==
    /\ pair[2] # None
    /\ pair[2][1].validation_error =
           <<77, 105, 115, 115, 105, 110, 103, 32, 99, 105, 116, 121, 32, 111, 114, 32,
             100, 105, 115, 116, 114, 105, 99, 116>>

\* C22: the city and the district of a ProcessedRecord are the parsed values
\* whenever the parser produced them, the caller-supplied field only stands in
\* for a value the parser left empty; when both stay empty the record is
\* quarantined as MISSING_FIELD "Missing city or district", and that
\* quarantine is given for no other reason than an empty city or district.
C22_CityDistrictResolution ==
    Called =>
        LET parts == ParsedParts(raw) IN
        /\ ret[1] # None =>
              /\ parts # None
              /\ ret[1][1].city = (IF parts[1].city # <<>> THEN parts[1].city
                                   ELSE raw_get(raw, "city"))
              /\ ret[1][1].district = (IF parts[1].district # <<>> THEN parts[1].district
                                       ELSE raw_get(raw, "district"))
        /\ MissingCityOrDistrict(ret) =>
              /\ ret[2][1].error_type = "MISSING_FIELD" /\ parts # None
              /\ \/ parts[1].city = <<>> /\ raw_get(raw, "city") = <<>>
                 \/ parts[1].district = <<>> /\ raw_get(raw, "district") = <<>>
        /\ (/\ ~AddressMissing(raw) /\ ~TypeMissing(raw) /\ parts # None
            /\ parts[1].city = <<>> /\ raw_get(raw, "city") = <<>>
            /\ parts[1].district = <<>> /\ raw_get(raw, "district") = <<>>)
              => MissingCityOrDistrict(ret)

\* The caller supplies a city and a district other than the parsed ones and
\* the record is processed with the parsed ones.
C22_Witness ==
    /\ Called /\ ret[1] # None
    /\ raw_get(raw, "city") # <<>> /\ raw_get(raw, "city") # ret[1][1].city
    /\ raw_get(raw, "district") # <<>> /\ raw_get(raw, "district") # ret[1][1].district
    /\ ret[1][1].city = ParsedParts(raw)[1].city

\* C23: raw_address of the AddressParts in a ProcessedRecord is the
\* full_address of the raw record exactly as supplied.
C23_RawAddressVerbatim ==
    (Called /\ ret[1] # None) =>
        ret[1][1].address_parts.raw_address = raw_get(raw, "full_address")

----------------------------------------------------------------------------
(* clean_text: what is deleted and what is folded *)

\* The text with every space, tab, newline and ideographic space left out and
\* every full-width form U+FF01..U+FF5E replaced by its ASCII character.
RECURSIVE Squeezed(_)
Squeezed(s) ==
    IF s = <<>> THEN <<>>
    ELSE LET c == Head(s) IN
         IF c \in {32, 9, 10, 12288} THEN Squeezed(Tail(s))
         ELSE IF c >= 65281 /\ c <= 65374 THEN <<c - 65248>> \o Squeezed(Tail(s))
         ELSE <<c>> \o Squeezed(Tail(s))

\* C24: the output of clean_text holds no whitespace code point and no
\* full-width digit or letter; on a text of ASCII characters, ideographs,
\* whitespace and full-width forms it is the text with every whitespace
\* character deleted and every full-width form folded; the empty string comes
\* back unchanged.
C24_CleanTextDeletesWhitespace ==
    tpc # "start" =>
        /\ \A i \in 1..Len(once[1]) :
              /\ once[1][i] \notin {32, 9, 10, 12288}
              /\ once[1][i] \notin 65281..65374
        /\ (\A i \in 1..Len(text) :
                  \/ text[i] < 128 \/ text[i] \in {9, 10, 32, 12288}
                  \/ text[i] \in 19968..40959 \/ text[i] \in 65281..65374)
              => once[1] = Squeezed(text)
        /\ text = <<>> => once[1] = <<>>

\* Tab, full-width A, ideographic space: only the folded A is left.
C24_Witness ==
    /\ tpc = "cleaned"
    /\ text = <<9, 65313, 12288>> /\ once = Some(<<65>>)

----------------------------------------------------------------------------
(* parse_address: city and district, village and neighborhood, global searches *)

\* Ends of the city runs at the start of s, and ends of the district runs that
\* follow a city run ending at index ce.
CityRunEnds(s) == {i \in 2..Len(s) : s[i] \in {24066, 32291} /\ \A k \in 1..i : IsCJK(s[k])}
DistrictRunEnds(s, ce) ==
    {j \in (ce + 2)..Len(s) : s[j] \in {21312, 37129, 37806, 24066}
                                /\ \A k \in (ce + 1)..j : IsCJK(s[k])}
StartsWithCityDistrict(s) == \E ce \in CityRunEnds(s) : DistrictRunEnds(s, ce) # {}

\* C25: parse_address returns None exactly when the normalized address does
\* not start with a city run followed by a district run; otherwise city is
\* the smallest city run, district the smallest district run after it, both
\* not empty, and city followed by district is a prefix of the normalized
\* address.
C25_CityDistrictPrefix ==
    cpc = "returned" =>
        LET s == clean_text(arg.text) IN
        /\ rv = None <=> ~StartsWithCityDistrict(s)
        /\ rv # None =>
              LET ce == Min(CityRunEnds(s))
                  de == Min(DistrictRunEnds(s, ce))
              IN /\ rv[1].city = SubSeq(s, 1, ce)
                 /\ rv[1].district = SubSeq(s, ce + 1, de)
                 /\ rv[1].city # <<>> /\ rv[1].district # <<>>
                 /\ SubSeq(s, 1, Len(rv[1].city) + Len(rv[1].district))
                        = rv[1].city \o rv[1].district

\* 大市市區大: the city 大市 ends at the first 市, the district is 市區.
C25_Witness ==
    /\ cpc = "returned" /\ arg.text = <<22823, 24066, 24066, 21312, 22823>>
    /\ rv # None /\ rv[1].city = <<22823, 24066>> /\ rv[1].district = <<24066, 21312>>


\* The normalized address after the city and district that were returned.
Remainder(parts, s) == SubSeq(s, Len(parts.city) + Len(parts.district) + 1, Len(s))

\* <<v, n>>: the remainder rem starts with a village run that ends at v (v = 0:
\* no village), then a run of the digits 0-9, then 鄰 at index n.
VillageNeighborhoodEnds(rem) ==
    {vn \in (0..Len(rem)) \X (1..Len(rem)) :
        /\ vn[1] = 0 \/ (/\ vn[1] >= 2 /\ rem[vn[1]] \in {37324, 26449}
                         /\ \A k \in 1..vn[1] : IsCJK(rem[k]))
        /\ vn[2] >= vn[1] + 2 /\ rem[vn[2]] = 37168
        /\ \A k \in (vn[1] + 1)..(vn[2] - 1) : rem[k] \in 48..57}

\* The digits without their leading zeros, "0" when nothing is left.
WithoutLeadingZeros(digits) ==
    LET nonzero == {i \in 1..Len(digits) : digits[i] # 48}
    IN IF nonzero = {} THEN <<48>> ELSE SubSeq(digits, Min(nonzero), Len(digits))

\* C26: when the remainder after city and district starts with an optional
\* village run and a digit run ending in 鄰, neighborhood is the digit run
\* without leading zeros and without 鄰, "0" for a run of zeros, never empty,
\* and the road is matched on what follows 鄰.
C26_Neighborhood ==
    (cpc = "returned" /\ rv # None) =>
        LET rem == Remainder(rv[1], clean_text(arg.text)) IN
        VillageNeighborhoodEnds(rem) # {} =>
            LET vn == CHOOSE x \in VillageNeighborhoodEnds(rem) : TRUE
                rest == SubSeq(rem, vn[2] + 1, Len(rem))
                roadEnds == {e \in 2..Len(rest) : /\ rest[e] \in {36335, 34903, 36947}
                                                  /\ \A k \in 1..e : IsCJK(rest[k])}
            IN /\ rv[1].neighborhood
                    = Some(WithoutLeadingZeros(SubSeq(rem, vn[1] + 1, vn[2] - 1)))
               /\ rv[1].neighborhood # Some(<<>>)
               /\ \A i \in 1..Len(rv[1].neighborhood[1]) : rv[1].neighborhood[1][i] # 37168
               /\ rv[1].village = (IF vn[1] = 0 THEN None ELSE Some(SubSeq(rem, 1, vn[1])))
               /\ rv[1].road = (IF roadEnds = {} THEN None
                                ELSE Some(SubSeq(rest, 1, Max(roadEnds))))

\* 富台里 then a run of zeros before 鄰, then a road.
C26_Witness ==
    /\ cpc = "returned" /\ rv # None /\ arg.shape = "neighborhood"
    /\ arg.neighborhood = Some(<<48, 48, 48>>) /\ rv[1].neighborhood = Some(<<48>>)
    /\ rv[1].village = Some(<<23500, 21488, 37324>>) /\ rv[1].road = Some(<<20449, 32681, 36335>>)


\* The first place in s where a character of the class stands right before
\* the glyph c, and the whole run of the class that ends there; None when
\* there is no such place.
FirstRunBefore(s, class, c) ==
    LET ends == {j \in 2..Len(s) : s[j] = c /\ s[j - 1] \in class}
    IN IF ends = {} THEN None
       ELSE LET j == Min(ends)
                a == Min({i \in 1..(j - 1) : \A k \in i..(j - 1) : s[k] \in class})
            IN Some(SubSeq(s, a, j - 1))

\* The run that directly follows the first 樓之 that has a digit or a numeral
\* character after it: digits when it starts with a digit, numeral characters
\* otherwise.
FirstRunAfterFloorDash(s) ==
    LET starts == {j \in 3..Len(s) : /\ s[j - 2] = 27155 /\ s[j - 1] = 20043
                                     /\ s[j] \in DIGITS_OR_NUMERALS}
    IN IF starts = {} THEN None
       ELSE LET j == Min(starts)
                class == IF s[j] \in DIGITS THEN DIGITS ELSE NUMERALS
                b == Max({e \in j..Len(s) : \A k \in j..e : s[k] \in class})
            IN Some(SubSeq(s, j, b))

Converted(run) == IF run = None THEN None ELSE Some(chinese_to_arabic(run[1]))

\* C27: lane, alley, number, floor and floor_dash each come from the leftmost
\* match of their own pattern in the whole normalized address, whatever the
\* city, district, village and road parsing did: each is present exactly when
\* its pattern occurs, floor_dash only for a numeral right after 樓之.
C27_GlobalSearches ==
    (cpc = "returned" /\ rv # None) =>
        LET s == clean_text(arg.text) IN
        /\ rv[1].lane = FirstRunBefore(s, DIGITS, 24055)
        /\ rv[1].alley = FirstRunBefore(s, DIGITS, 24324)
        /\ rv[1].number = FirstRunBefore(s, DIGITS, 34399)
        /\ rv[1].floor = Converted(FirstRunBefore(s, DIGITS_OR_NUMERALS, 27155))
        /\ rv[1].floor_dash = Converted(FirstRunAfterFloorDash(s))

\* 臺北市大安區1巷2巷3弄4弄5號6號7樓8樓之9樓之十: no road, the first of each.
C27_Witness ==
    /\ cpc = "returned" /\ rv # None /\ rv[1].road = None
    /\ rv[1].lane = Some(<<49>>) /\ rv[1].alley = Some(<<51>>) /\ rv[1].number = Some(<<53>>)
    /\ rv[1].floor = Some(<<55>>) /\ rv[1].floor_dash = Some(<<57>>)


\* The raw record r with other caller-supplied city and district fields.
WithCaller(r, c, di) ==
    [k \in DOMAIN r \ {"city", "district"} |-> r[k]] @@ Field("city", c) @@ Field("district", di)
CallerValues == {None, Some(<<>>), Some(<<39640, 38596, 24066>>), Some(<<40179, 23665, 21312>>)}

SameOutcome(a, b) ==
    /\ a[1] = None <=> b[1] = None
    /\ a[2] = None <=> b[2] = None
    /\ (a[2] # None /\ b[2] # None) =>
          /\ a[2][1].error_type = b[2][1].error_type
          /\ a[2][1].validation_error = b[2][1].validation_error
    /\ (a[1] # None /\ b[1] # None) =>
          \A f \in {"city", "district", "full_address", "address_parts", "assignment_date",
                    "assignment_date_roc", "assignment_type"} : a[1][1][f] = b[1][1][f]

\* C28: the caller-supplied city and district never change the outcome of
\* process_record: the same record with any other city/district fields gives
\* the same side, error type, message and ProcessedRecord fields (raw_data
\* apart); a ProcessedRecord has the city and district of its address_parts;
\* no record is quarantined with "Missing city or district".
C28_CallerFieldsIgnored ==
    Called =>
        /\ \A c \in CallerValues, di \in CallerValues :
              SameOutcome(ret, process_record(WithCaller(raw, c, di)))
        /\ ret[1] # None =>
              /\ ret[1][1].city = ret[1][1].address_parts.city
              /\ ret[1][1].district = ret[1][1].address_parts.district
        /\ ~MissingCityOrDistrict(ret)

\* The address cannot be parsed; the city and district the caller supplied do
\* not stand in for it.
C28_Witness ==
    /\ Called /\ ret[2] # None /\ ret[2][1].error_type = "INVALID_ADDRESS"
    /\ raw_get(raw, "city") # <<>> /\ raw_get(raw, "district") # <<>>


\* The register_date of r is missing, empty or only whitespace.
DateBlank(r) ==
    \A i \in 1..Len(raw_get(r, "register_date")) : raw_get(r, "register_date")[i] \in WHITESPACE

\* C29: a record without a register_date (missing, empty, only whitespace) is
\* never processed and never reported as MISSING_FIELD for its date: when its
\* address and register_type pass it is quarantined as DATE_FORMAT with the
\* message "Cannot parse date: " and nothing after it; MISSING_FIELD comes
\* only with "Missing full_address" or "Missing register_type".
C29_BlankDateIsDateFormat ==
    Called =>
        /\ DateBlank(raw) =>
              /\ ret[1] = None /\ ret[2] # None
              /\ (~AddressMissing(raw) /\ ~TypeMissing(raw) /\ ~AddressUnparseable(raw)) =>
                    /\ ret[2][1].error_type = "DATE_FORMAT"
                    /\ ret[2][1].validation_error = <<67, 97, 110, 110, 111, 116, 32, 112, 97, 114, 115, 101, 32, 100, 97, 116, 101, 58, 32>>
        /\ (ret[2] # None /\ ret[2][1].error_type = "MISSING_FIELD") =>
              ret[2][1].validation_error \in {<<77, 105, 115, 115, 105, 110, 103, 32, 102, 117, 108, 108, 95, 97, 100, 100, 114, 101, 115, 115>>,
                                              <<77, 105, 115, 115, 105, 110, 103, 32, 114, 101, 103, 105, 115, 116, 101, 114, 95, 116, 121, 112, 101>>}

\* The raw record has no register_date key at all.
C29_Witness ==
    /\ Called /\ "register_date" \notin DOMAIN raw
    /\ ret[2] # None /\ ret[2][1].error_type = "DATE_FORMAT"

----------------------------------------------------------------------------
(* main: process the scraped records, then write to the database *)

\* str.strip(): leading and trailing whitespace removed.
strip(s) ==
    LET kept == {i \in 1..Len(s) : s[i] \notin WHITESPACE}
        back == {k \in 1..Len(s) : s[Len(s) + 1 - k] \notin WHITESPACE}
    IN IF kept = {} THEN <<>> ELSE SubSeq(s, Min(kept), Len(s) + 1 - Min(back))

\* The dataclass AddressRecord; raw_data is "" when the caller gives none.
AddressRecord(city, district, full_address, register_date, register_type, raw_data) ==
    [city |-> city, district |-> district, full_address |-> full_address,
     register_date |-> register_date, register_type |-> register_type, raw_data |-> raw_data]

\* AddressRecord.validate: <<is_valid, error_message>>.
validate(record) ==
    IF record.city = <<>> THEN <<FALSE, MSG_MISSING_CITY>>
    ELSE IF record.district = <<>> THEN <<FALSE, MSG_MISSING_DISTRICT>>
    ELSE IF record.full_address = <<>> THEN <<FALSE, MSG_MISSING_FULL_ADDRESS>>
    ELSE IF record.register_type = <<>> THEN <<FALSE, MSG_MISSING_REGISTER_TYPE>>
    ELSE IF Len(record.full_address) < 5
    THEN <<FALSE, MSG_ADDRESS_TOO_SHORT_PREFIX \o record.full_address>>
    ELSE <<TRUE, <<>>>>

\* The record that parse_current_page builds from the stripped cell texts:
\* raw_data is address|date|type.
row_record(city, district, full_address, register_date, register_type) ==
    AddressRecord(city, district, full_address, register_date, register_type,
                  full_address \o <<124>> \o register_date \o <<124>> \o register_type)

\* One pass of the loop of parse_current_page over a table row whose td cells
\* have the texts cols: the records so far, with the record of the row
\* appended when the row has four cells, an address and a valid record.
parse_row(records_so_far, city, district, cols) ==
    IF Len(cols) < 4 THEN records_so_far
    ELSE IF strip(cols[2]) = <<>> THEN records_so_far
    ELSE IF validate(row_record(city, district, strip(cols[2]), strip(cols[3]), strip(cols[4])))[1]
    THEN Append(records_so_far,
                row_record(city, district, strip(cols[2]), strip(cols[3]), strip(cols[4])))
    ELSE records_so_far

\* for row in rows, from the row at index i on, with the records that the
\* rows before it have given.
RECURSIVE parse_rows_from(_, _, _, _, _)
parse_rows_from(records_so_far, city, district, rows, i) ==
    IF Evaluated(records_so_far) /\ i > Len(rows) THEN records_so_far
    ELSE parse_rows_from(parse_row(records_so_far, city, district, rows[i]),
                         city, district, rows, i + 1)

\* parse_current_page(district) on the rows of the result table.
parse_current_page(city, district, rows) == parse_rows_from(<<>>, city, district, rows, 1)

\* ScraperConfig.CITY 臺北市, and the default target district 大安區 of main.
CITY == <<33274, 21271, 24066>>
DEFAULT_DISTRICT == <<22823, 23433, 21312>>

\* "民國１１４年１２月３０日" (full-width digits)
DATE_MINGUO_WIDE == <<27665, 22283, 65297, 65297, 65300, 24180, 65297, 65298, 26376,
                      65299, 65296, 26085>>

\* Rows of the result table (number, address, date, type): a good row, one
\* with a date that does not parse, one with an address that does not parse,
\* a good row in full-width characters with whitespace, a row with three
\* cells, a row with a blank address, a row with an address of three
\* characters, a row without a type.
TableRows ==
    << <<<<49>>, ADDR_FULL, DateText(3, 114, 12, 30), TYPE_INITIAL>>,
       <<<<50>>, ADDR_FULL, NOT_A_DATE, TYPE_INITIAL>>,
       <<<<51>>, ADDR_NO_CITY, DateText(3, 114, 12, 30), TYPE_INITIAL>>,
       <<<<52>>, ADDR_WIDE, <<32>> \o DATE_MINGUO_WIDE, TYPE_SPACED \o <<10>>>>,
       <<<<53>>, ADDR_FULL, TYPE_INITIAL>>,
       <<<<54>>, BLANKS, DateText(3, 114, 12, 30), TYPE_INITIAL>>,
       <<<<55>>, ADDR_NO_DISTRICT, DateText(3, 114, 12, 30), TYPE_INITIAL>>,
       <<<<56>>, ADDR_FULL, DateText(3, 114, 12, 30), BLANKS>> >>

\* AddressRecord objects the scraper can return.
ScrapedRecords == parse_current_page(CITY, DEFAULT_DISTRICT, TableRows)
ScrapedPool == {ScrapedRecords[i] : i \in 1..Len(ScrapedRecords)}

\* The list comprehension that turns the AddressRecords into raw dicts.
raw_dicts(rs) ==
    [i \in 1..Len(rs) |->
        "full_address" :> rs[i].full_address @@ "register_date" :> rs[i].register_date
            @@ "register_type" :> rs[i].register_type @@ "city" :> rs[i].city
            @@ "district" :> rs[i].district]

\* str.replace(old, "") for a non-empty old: every occurrence of old, from the
\* left, taken out.
RECURSIVE remove_all(_, _)
remove_all(s, old) ==
    LET found == {i \in 1..Len(s) : LitAt(s, i, old)}
    IN IF found = {} THEN s
       ELSE SubSeq(s, 1, Min(found) - 1)
                \o remove_all(SubSeq(s, Min(found) + Len(old), Len(s)), old)

\* 民國, and the pattern (\d+)年(\d+)月(\d+)日 of DatabaseManager._parse_roc_date
MINGUO == <<27665, 22283>>
DB_DATE_PATTERN == [prefix |-> <<>>, sep1 |-> <<24180>>, sep2 |-> <<26376>>, suffix |-> <<26085>>]

\* datetime(roc_year + offset, month, day).date() on the outcomes of the three
\* int() calls: ValueError (ok = FALSE) when an int() raised or when datetime
\* raises.
date_of_digits(offset, roc_year, month, day) ==
    IF roc_year.ok /\ month.ok /\ day.ok
    THEN date(roc_year.value + offset, month.value, day.value)
    ELSE [ok |-> FALSE]

\* The date of a match of DB_DATE_PATTERN: datetime(roc_year + 1911, month,
\* day).date(), None when int() or datetime raises (the except Exception
\* branch).
date_of_match(match) ==
    IF date_of_digits(1911, int(match.g1), int(match.g2), int(match.g3)).ok
    THEN Some(date_of_digits(1911, int(match.g1), int(match.g2), int(match.g3)).value)
    ELSE None

\* re.match of DB_DATE_PATTERN at the start of date_str, turned into a date.
date_at_start(match) == IF match = None THEN None ELSE date_of_match(match[1])

\* DatabaseManager._parse_roc_date: an Optional date.
DatabaseManager_parse_roc_date(roc_date_str) ==
    date_at_start(MatchAt(DB_DATE_PATTERN, strip(remove_all(roc_date_str, MINGUO)), 1))

\* The tuple save_records appends to data for a record whose date parsed to
\* assignment_date (an Optional date), as a row of the table.
raw_row(record, assignment_date) ==
    [city |-> record.city, district |-> record.district,
     full_address |-> record.full_address,
     assignment_type |-> record.register_type,
     assignment_date |-> assignment_date,
     assignment_date_roc |->
         IF assignment_date = None THEN None
         ELSE Some(str(assignment_date[1].year - 1911) \o <<45>> \o Pad2(assignment_date[1].month)
                       \o <<45>> \o Pad2(assignment_date[1].day)),
     raw_data |-> [full_address |-> record.full_address,
                   register_date |-> record.register_date,
                   register_type |-> record.register_type,
                   raw |-> record.raw_data]]

\* The list data of save_records.
raw_rows(recs) ==
    [i \in 1..Len(recs) |-> raw_row(recs[i], DatabaseManager_parse_roc_date(recs[i].register_date))]

\* The tuple save_processed_records appends to data, as a row of the table.
processed_row(record) ==
    [city |-> record.city, district |-> record.district,
     full_address |-> record.full_address,
     village |-> record.address_parts.village,
     neighborhood |-> record.address_parts.neighborhood,
     road |-> record.address_parts.road,
     section |-> record.address_parts.section,
     lane |-> record.address_parts.lane,
     alley |-> record.address_parts.alley,
     number |-> record.address_parts.number,
     floor |-> record.address_parts.floor,
     floor_dash |-> record.address_parts.floor_dash,
     assignment_type |-> record.assignment_type,
     assignment_date |-> Some(record.assignment_date),
     assignment_date_roc |-> Some(record.assignment_date_roc),
     raw_data |-> [full_address |-> record.full_address,
                   assignment_date_roc |-> record.assignment_date_roc,
                   assignment_type |-> record.assignment_type,
                   original |-> record.raw_data]]

\* The list data of save_processed_records.
processed_rows(recs) == [i \in 1..Len(recs) |-> processed_row(recs[i])]

\* ON CONFLICT (city, district, full_address, assignment_date): the columns of
\* the unique index the statement names.
conflict_key(row) == <<row.city, row.district, row.full_address, row.assignment_date>>

\* Whether row conflicts with a row of table: the keys are equal; a NULL
\* assignment_date equals no other value.
conflicts(table, row) ==
    /\ row.assignment_date # None
    /\ \E i \in 1..Len(table) : conflict_key(table[i]) = conflict_key(row)

\* execute_values(cursor, INSERT ... VALUES %s ON CONFLICT ... DO NOTHING, data):
\* the rows are taken in order, a row that conflicts with a row of the table
\* or with a row taken before it is skipped.
RECURSIVE insert_rows(_, _)
insert_rows(table, data) ==
    IF data = <<>> THEN table
    ELSE insert_rows(IF conflicts(table, Head(data)) THEN table ELSE Append(table, Head(data)),
                     Tail(data))

\* What the database does after it accepted the connection: nothing wrong,
\* conn.cursor() raises, the INSERT raises, the commit raises.
DB_FAULTS == {"none", "cursor", "insert", "commit"}

\* The try statement of the two save methods on the list data, with the table
\* as it is after the INSERT: the rows committed, the value returned, and
\* whether the method raised.  When conn.cursor() raises, the except branch
\* rolls back and cursor.close() of the finally clause raises
\* UnboundLocalError; when the INSERT or the commit raises the method rolls
\* back and returns 0.
save_rows(fault, inserted, returned) ==
    IF fault = "cursor" THEN [rows |-> <<>>, returned |-> 0, raised |-> TRUE]
    ELSE IF fault \in {"insert", "commit"} THEN [rows |-> <<>>, returned |-> 0, raised |-> FALSE]
    ELSE [rows |-> inserted, returned |-> returned, raised |-> FALSE]

\* The rows of after that are not in before (after = before with rows added).
added_rows(before, after) == SubSeq(after, Len(before) + 1, Len(after))

\* DatabaseManager.save_records(records) on a manager without a connection:
\* returns len(data).
save_records(table, recs, up, fault) ==
    IF recs = <<>> THEN [rows |-> <<>>, returned |-> 0, raised |-> FALSE]
    ELSE IF ~up THEN [rows |-> <<>>, returned |-> 0, raised |-> FALSE]
    ELSE save_rows(fault, added_rows(table, insert_rows(table, raw_rows(recs))), Len(recs))

\* page_size of execute_values: the rows of data go to the database in
\* statements of at most that many rows, one statement after the other.
PAGE_SIZE == 100

\* The rows of data that go before its last page, and the table after them.
before_last_page(data) == SubSeq(data, 1, ((Len(data) - 1) \div PAGE_SIZE) * PAGE_SIZE)
table_at_last_page(table, data) == insert_rows(table, before_last_page(data))

\* cursor.rowcount after execute_values on a non-empty data: the rows that
\* the last statement inserted.
rowcount(table, data) ==
    Len(insert_rows(table_at_last_page(table, data),
                    SubSeq(data, Len(before_last_page(data)) + 1, Len(data))))
        - Len(table_at_last_page(table, data))

\* cursor.rowcount if cursor.rowcount > 0 else len(data)
inserted_count(count, n) == IF count > 0 THEN count ELSE n

\* DatabaseManager.save_processed_records(records) on a manager without a
\* connection.
save_processed_records(table, recs, up, fault) ==
    IF recs = <<>> THEN [rows |-> <<>>, returned |-> 0, raised |-> FALSE]
    ELSE IF ~up THEN [rows |-> <<>>, returned |-> 0, raised |-> FALSE]
    ELSE save_rows(fault, added_rows(table, insert_rows(table, processed_rows(recs))),
                   inserted_count(rowcount(table, processed_rows(recs)), Len(recs)))

\* Rows that an earlier run can have left in the table: the processed row of
\* the good record, and the raw row of the record with the 民國 date.
EarlierRows ==
    {processed_rows(process_records(raw_dicts(<<ScrapedRecords[1]>>))[1])[1],
     raw_rows(<<ScrapedRecords[4]>>)[1]}

\* A result table of one row more than a page of execute_values, every row
\* with an address of its own (臺北市大安區信義路 i 號); the same table with
\* the address of the first row again in the last row; a table of one row
\* whose date has a year of more than 4300 digits.
ROAD_PREFIX == <<33274, 21271, 24066, 22823, 23433, 21312, 20449, 32681, 36335>>
PagedRow(i) == <<str(i), ROAD_PREFIX \o str(i) \o <<34399>>, DateText(3, 114, 12, 30), TYPE_INITIAL>>
PagedRows == [i \in 1..(PAGE_SIZE + 1) |-> PagedRow(i)]
PagedRowsRepeating == [i \in 1..(PAGE_SIZE + 1) |-> PagedRow(IF i > PAGE_SIZE THEN 1 ELSE i)]
LongDateRows == << <<<<49>>, ADDR_FULL, DATE_LONG_YEAR, TYPE_INITIAL>> >>
ExtraScrapes ==
    {parse_current_page(CITY, DEFAULT_DISTRICT, rows) :
        rows \in {PagedRows, PagedRowsRepeating, LongDateRows}}

\* After scraper.run: the results, whether data_processing could be imported,
\* whether the database accepts a connection and what it does afterwards, the
\* table as earlier runs left it.
InitMain ==
    /\ scraped \in UNION {[1..n -> ScrapedPool] : n \in 0..MaxBatch} \cup ExtraScrapes
    /\ available \in BOOLEAN
    /\ db_up \in BOOLEAN
    /\ db_fault \in (IF db_up THEN DB_FAULTS ELSE {"none"})
    /\ house_number_records \in {<<>>} \cup {<<r>> : r \in EarlierRows}
    /\ processed_records = <<>> /\ quarantined_records = <<>>
    /\ db_raw = <<>> /\ db_processed = <<>> /\ db_saved_count = 0 /\ mpc = "scraped"
    /\ TextIdle /\ DateIdle /\ RecIdle /\ BatchIdle /\ CallIdle

\* Step 2 of main: process the data when there are results and the module is
\* available.
ProcessData ==
    /\ mpc = "scraped"
    /\ IF scraped # <<>> /\ available
       THEN /\ processed_records' = process_records(raw_dicts(scraped))[1]
            /\ quarantined_records' = process_records(raw_dicts(scraped))[2]
       ELSE UNCHANGED <<processed_records, quarantined_records>>
    /\ mpc' = "processed"
    /\ UNCHANGED <<scraped, available, db_up, db_fault, house_number_records,
                   db_raw, db_processed, db_saved_count,
                   textVars, dateVars, recVars, batchVars, callVars>>

\* The end of Step 3 with the outcome of the save method: the rows are in the
\* table and the count is kept, or main ends with the exception of the method.
Saved(outcome) ==
    /\ house_number_records' = house_number_records \o outcome.rows
    /\ db_saved_count' = outcome.returned
    /\ mpc' = (IF outcome.raised THEN "raised" ELSE "saved")

\* Step 3 of main: save_processed_records when there are processed records,
\* save_records(results) otherwise when there are results.
WriteDatabase ==
    /\ mpc = "processed"
    /\ IF processed_records # <<>>
       THEN /\ Saved(save_processed_records(house_number_records, processed_records,
                                            db_up, db_fault))
            /\ db_processed' = save_processed_records(house_number_records, processed_records,
                                                      db_up, db_fault).rows
            /\ UNCHANGED db_raw
       ELSE IF scraped # <<>>
       THEN /\ Saved(save_records(house_number_records, scraped, db_up, db_fault))
            /\ db_raw' = save_records(house_number_records, scraped, db_up, db_fault).rows
            /\ UNCHANGED db_processed
       ELSE /\ mpc' = "saved"
            /\ UNCHANGED <<db_raw, db_processed, house_number_records, db_saved_count>>
    /\ UNCHANGED <<scraped, available, db_up, db_fault, processed_records, quarantined_records,
                   textVars, dateVars, recVars, batchVars, callVars>>

NextMain == ProcessData \/ WriteDatabase
SpecMain == InitMain /\ [][NextMain]_vars

\* The raw dict main made of the AddressRecord that a row of save_records
\* was made of.
RowAsRaw(row) ==
    "full_address" :> row.raw_data.full_address @@ "register_date" :> row.raw_data.register_date
        @@ "register_type" :> row.raw_data.register_type @@ "city" :> row.city
        @@ "district" :> row.district

\* C30: raw records are written to the database only when data processing is
\* not available; when the processing step ran, no record that was
\* quarantined is written in the same run.
C30_QuarantinedNeverSaved ==
    mpc = "saved" =>
        /\ db_raw # <<>> => ~available
        /\ \A i \in 1..Len(quarantined_records), j \in 1..Len(db_raw) :
              quarantined_records[i].raw_data # RowAsRaw(db_raw[j])

=============================================================================
